---------------------------- MODULE Spec2Model ----------------------------
(***************************************************************************)
(* A model of the Jaipur rules engine, src/GameEngine.py.                  *)
(*                                                                         *)
(* The engine's fields are the variables tokens, bonus_tokens, deck,       *)
(* market, players, whos_turn and last_action.  Cards are the integers     *)
(* 0..6 of GameEngine._types (6 is "camels"), lists are sequences whose    *)
(* first element is Python's index 0, and list.pop() takes the last        *)
(* element.  A call of do_action is one step: it sets req to the request   *)
(* and ret to what the call gave back ("True", "False", or the name of     *)
(* the exception that left do_action); the caller's next step, Return,     *)
(* drops them again.  A Python value that may be None is a sequence of     *)
(* length at most one: <<>> is None and <<x>> is x.                        *)
(***************************************************************************)
EXTENDS Integers, Sequences, FiniteSets, TLC

VARIABLES
    tokens,        \* GameEngine._tokens: good -> stack of values
    bonus_tokens,  \* GameEngine._bonus_tokens: tier -> stack of values
    deck,          \* GameEngine._deck
    market,        \* GameEngine._market
    players,       \* GameEngine._players: seat -> PlayerState
    whos_turn,     \* GameEngine.whos_turn
    last_action,   \* GameEngine._last_action
    req,           \* the arguments of the do_action call that just ended
    ret,           \* what the call that just ended gave back
    answer,        \* the query that just ended and the value it returned
    game,          \* the caller: which game of Games is being played
    step,          \* the caller: how many calls of the game's script succeeded
    free           \* the caller: how many successful calls were made off script

engine == <<tokens, bonus_tokens, deck, market, players, whos_turn, last_action>>
vars == <<tokens, bonus_tokens, deck, market, players, whos_turn, last_action,
          req, ret, answer, game, step, free>>

-----------------------------------------------------------------------------
(* Python values *)

None == <<>>
Some(x) == <<x>>
IsNone(o) == Len(o) = 0
Val(o) == o[1]

\* not x, for x a list or None
Falsy(o) == IsNone(o) \/ Len(Val(o)) = 0

\* seq[i] and seq.pop(i) are defined for -len <= i < len
InRange(s, i) == -Len(s) <= i /\ i < Len(s)
Pos(s, i) == IF i >= 0 THEN i + 1 ELSE Len(s) + i + 1
At(s, i) == s[Pos(s, i)]
SetAt(s, i, v) == [s EXCEPT ![Pos(s, i)] = v]
RemoveAt(s, p) == SubSeq(s, 1, p - 1) \o SubSeq(s, p + 1, Len(s))

Last(s) == s[Len(s)]
Front(s) == SubSeq(s, 1, Len(s) - 1)

RECURSIVE Max(_)
Max(s) == IF Len(s) = 1 THEN s[1]
          ELSE LET m == Max(Tail(s)) IN IF s[1] > m THEN s[1] ELSE m

RECURSIVE Sum(_)
Sum(s) == IF Len(s) = 0 THEN 0 ELSE s[1] + Sum(Tail(s))

Range(s) == {s[i] : i \in 1..Len(s)}
Count(s, v) == Cardinality({i \in 1..Len(s) : s[i] = v})

\* len(x) != len(set(x))
HasDuplicates(s) == Len(s) # Cardinality(Range(s))

\* list.remove(v): the first occurrence goes
FirstPos(s, v) == CHOOSE p \in 1..Len(s) : s[p] = v /\ \A q \in 1..(p - 1) : s[q] # v
Remove(s, v) == RemoveAt(s, FirstPos(s, v))

\* list.sort(): the i-th of the result is the value with fewer than i
\* smaller elements and at least i elements not larger
Sort(s) ==
    [i \in 1..Len(s) |->
        CHOOSE v \in {s[j] : j \in 1..Len(s)} :
            /\ Cardinality({j \in 1..Len(s) : s[j] < v}) < i
            /\ i <= Cardinality({j \in 1..Len(s) : s[j] <= v})]

\* [v] * n
RECURSIVE Repeat(_, _)
Repeat(v, n) == IF n = 0 THEN <<>> ELSE <<v>> \o Repeat(v, n - 1)

-----------------------------------------------------------------------------
(* The cards and the tokens *)

Camel == 6
Goods == 0..5
Tiers == {3, 4, 5}
Seats == {0, 1}

InitTokens ==
    [t \in Goods |->
        CASE t = 0 -> <<1, 1, 1, 1, 1, 1, 2, 3, 4>>
          [] t = 1 -> <<1, 1, 2, 2, 3, 3, 5>>
          [] t = 2 -> <<1, 1, 2, 2, 3, 3, 5>>
          [] t = 3 -> <<5, 5, 5, 5, 5>>
          [] t = 4 -> <<5, 5, 5, 6, 6>>
          [] t = 5 -> <<5, 5, 5, 7, 7>>]

InitBonusTokens ==
    [n \in Tiers |->
        CASE n = 3 -> <<1, 1, 2, 2, 2, 3, 3>>
          [] n = 4 -> <<4, 4, 5, 5, 6, 6>>
          [] n = 5 -> <<8, 8, 9, 10, 10>>]

cards_per_type ==
    [t \in 0..6 |->
        CASE t = 0 -> 10 [] t = 1 -> 8 [] t = 2 -> 8 [] t = 3 -> 6
          [] t = 4 -> 6 [] t = 5 -> 6 [] t = 6 -> 8]

\* a shuffle keeps what the list holds
IsShuffleOfCounts(s, counts) == \A t \in DOMAIN counts : Count(s, t) = counts[t]
IsShuffleOf(s, u) == Len(s) = Len(u) /\ \A v \in Range(s) \cup Range(u) : Count(s, v) = Count(u, v)

\* PlayerState.__init__
PlayerState(init_hand) ==
    [hand |-> Sort(init_hand), tokens |-> <<>>, bonus_tokens |-> [n \in Tiers |-> <<>>]]

\* PlayerState.num_cards
num_cards(p) == Cardinality({i \in 1..Len(p.hand) : p.hand[i] < Camel})


-----------------------------------------------------------------------------
(* The engine.  An operation takes the engine's fields as a record g and   *)
(* gives [g |-> the fields afterwards, ret |-> what it returned or raised] *)

G == [tokens |-> tokens, bonus_tokens |-> bonus_tokens, deck |-> deck,
      market |-> market, players |-> players, whos_turn |-> whos_turn,
      last_action |-> last_action]

Result(g, r) == [g |-> g, ret |-> r]

Hand(g) == g.players[g.whos_turn].hand

\* a variant of _replenish_market that copies the deck's last card and leaves it on the deck
ReplenishWithoutPop(g) ==
    IF Len(g.deck) > 0
    THEN [g EXCEPT !.market = Append(g.market, Last(g.deck))]
    ELSE g

\* a variant of _replenish_market that draws the deck's first card
ReplenishFromFront(g) ==
    IF Len(g.deck) > 0
    THEN [g EXCEPT !.market = Append(g.market, Head(g.deck)),
                   !.deck = Tail(g.deck)]
    ELSE g

\* a variant of _replenish_market that never draws the deck's last card
ReplenishKeepsLast(g) ==
    IF Len(g.deck) > 1
    THEN [g EXCEPT !.market = Append(g.market, Last(g.deck)),
                   !.deck = Front(g.deck)]
    ELSE g

\* a variant of _replenish_market that reads the deck's last card and leaves it there
ReplenishPeeks(g) ==
    IF Len(g.deck) > 0
    THEN [g EXCEPT !.market = Append(g.market, Last(g.deck))]
    ELSE g

\* GameEngine._replenish_market
_replenish_market(g) ==
    IF Len(g.deck) > 0
    THEN [g EXCEPT !.market = Append(g.market, Last(g.deck)),
                   !.deck = Front(g.deck)]
    ELSE g

\* a variant of TakeCamelsLoop that draws for each market camel and gives none to the hand
RECURSIVE TakeCamelsLoopDiscards(_, _)
TakeCamelsLoopDiscards(g, n) ==
    IF n = 0 THEN g
    ELSE TakeCamelsLoopDiscards(_replenish_market(g), n - 1)

\* the loop of _do_take_camels: one camel to the hand, one draw, per market camel
RECURSIVE TakeCamelsLoop(_, _)
TakeCamelsLoop(g, n) ==
    IF n = 0 THEN g
    ELSE TakeCamelsLoop(
            _replenish_market(
                [g EXCEPT !.players[g.whos_turn].hand = Append(@, Camel)]),
            n - 1)

\* a variant of KeepOthers that also drops every camel
RECURSIVE KeepNoCamel(_, _, _)
KeepNoCamel(s, drop, p) ==
    IF p > Len(s) THEN <<>>
    ELSE (IF p \in drop \/ s[p] = Camel THEN <<>> ELSE <<s[p]>>)
            \o KeepNoCamel(s, drop, p + 1)

\* a variant of KeepOthers that drops nothing
KeepAll(s, drop, p) == s

\* [v for i, v in enumerate(market) if i not in drop]
RECURSIVE KeepOthers(_, _, _)
KeepOthers(s, drop, p) ==
    IF p > Len(s) THEN <<>>
    ELSE (IF p \in drop THEN <<>> ELSE <<s[p]>>) \o KeepOthers(s, drop, p + 1)

\* a variant of _do_take_camels that succeeds with no camel in the market
TakeCamelsOrNothing(g) ==
    LET market_camels == {p \in 1..Len(g.market) : g.market[p] = Camel}
        h == TakeCamelsLoop(g, Cardinality(market_camels))
    IN  Result([h EXCEPT !.market = KeepOthers(h.market, market_camels, 1)], "True")

\* GameEngine._do_take_camels
_do_take_camels(g) ==
    LET market_camels == {p \in 1..Len(g.market) : g.market[p] = Camel}
    IN  IF Cardinality(market_camels) = 0
        THEN Result(g, "False")
        ELSE LET h == TakeCamelsLoop(g, Cardinality(market_camels))
             IN  Result([h EXCEPT !.market = KeepOthers(h.market, market_camels, 1)],
                        "True")

\* a variant of SameTypeLoop that lets cards of any type through
SameTypeLoopAnyType(hand, idxs, selling_type) ==
    IF \E i \in 1..Len(idxs) : ~InRange(hand, idxs[i]) THEN "IndexError" ELSE "ok"

\* the checking loop of _do_sell_cards: "ok", "False" (a card of another type)
\* or "IndexError" (hand[idx] with idx outside the hand), whichever comes first
RECURSIVE SameTypeLoop(_, _, _)
SameTypeLoop(hand, idxs, selling_type) ==
    IF Len(idxs) = 0 THEN "ok"
    ELSE IF ~InRange(hand, idxs[1]) THEN "IndexError"
    ELSE IF At(hand, idxs[1]) # selling_type THEN "False"
    ELSE SameTypeLoop(hand, Tail(idxs), selling_type)

\* a variant of SellLoop that takes the token at the bottom of the stack
RECURSIVE SellLoopFromBottom(_, _, _)
SellLoopFromBottom(g, n, selling_type) ==
    IF n = 0 THEN Result(g, "ok")
    ELSE IF Count(Hand(g), selling_type) = 0 THEN Result(g, "ValueError")
    ELSE LET me == g.whos_turn
             g1 == [g EXCEPT !.players[me].hand = Remove(@, selling_type)]
             g2 == IF Len(g1.tokens[selling_type]) > 0
                   THEN [g1 EXCEPT !.players[me].tokens =
                                        Append(@, Head(g1.tokens[selling_type])),
                                   !.tokens[selling_type] = Tail(@)]
                   ELSE g1
         IN  SellLoopFromBottom(g2, n - 1, selling_type)

\* a variant of SellLoop that takes the token off its stack and gives it to nobody
RECURSIVE SellLoopDropsToken(_, _, _)
SellLoopDropsToken(g, n, selling_type) ==
    IF n = 0 THEN Result(g, "ok")
    ELSE IF Count(Hand(g), selling_type) = 0 THEN Result(g, "ValueError")
    ELSE LET me == g.whos_turn
             g1 == [g EXCEPT !.players[me].hand = Remove(@, selling_type)]
             g2 == IF Len(g1.tokens[selling_type]) > 0
                   THEN [g1 EXCEPT !.tokens[selling_type] = Front(@)]
                   ELSE g1
         IN  SellLoopDropsToken(g2, n - 1, selling_type)

\* the selling loop of _do_sell_cards: per index, one card of the type leaves
\* the hand (ValueError when none is left) and one token is taken if any is left
RECURSIVE SellLoop(_, _, _)
SellLoop(g, n, selling_type) ==
    IF n = 0 THEN Result(g, "ok")
    ELSE IF Count(Hand(g), selling_type) = 0 THEN Result(g, "ValueError")
    ELSE LET me == g.whos_turn
             g1 == [g EXCEPT !.players[me].hand = Remove(@, selling_type)]
             g2 == IF Len(g1.tokens[selling_type]) > 0
                   THEN [g1 EXCEPT !.players[me].tokens =
                                        Append(@, Last(g1.tokens[selling_type])),
                                   !.tokens[selling_type] = Front(@)]
                   ELSE g1
         IN  SellLoop(g2, n - 1, selling_type)

\* a variant of SellBonus that pays every sale of 3 or more from tier 3
SellBonusTierThree(g, n) ==
    IF n < 3 \/ Len(g.bonus_tokens[3]) = 0
    THEN g
    ELSE [g EXCEPT !.players[g.whos_turn].bonus_tokens[3] =
                        Append(@, Last(g.bonus_tokens[3])),
                   !.bonus_tokens[3] = Front(@)]

\* a variant of SellBonus that awards a copy and leaves the token on its stack
SellBonusCopies(g, n) ==
    LET tier == IF n = 3 THEN 3 ELSE IF n = 4 THEN 4 ELSE IF n >= 5 THEN 5 ELSE 0
    IN  IF tier = 0 \/ Len(g.bonus_tokens[IF tier = 0 THEN 3 ELSE tier]) = 0
        THEN g
        ELSE [g EXCEPT !.players[g.whos_turn].bonus_tokens[tier] =
                            Append(@, Last(g.bonus_tokens[tier]))]

\* the bonus token of a sale of n cards; an empty stack gives none
SellBonus(g, n) ==
    LET tier == IF n = 3 THEN 3 ELSE IF n = 4 THEN 4 ELSE IF n >= 5 THEN 5 ELSE 0
    IN  IF tier = 0 \/ Len(g.bonus_tokens[IF tier = 0 THEN 3 ELSE tier]) = 0
        THEN g
        ELSE [g EXCEPT !.players[g.whos_turn].bonus_tokens[tier] =
                            Append(@, Last(g.bonus_tokens[tier])),
                       !.bonus_tokens[tier] = Front(@)]

\* GameEngine._do_sell_cards
_do_sell_cards(g, sell_idx) ==
    LET hand == Hand(g) IN
    IF Max(sell_idx) > Len(hand) THEN Result(g, "False")
    ELSE IF HasDuplicates(sell_idx) THEN Result(g, "False")
    ELSE IF ~InRange(hand, sell_idx[1]) THEN Result(g, "IndexError")
    ELSE LET selling_type == At(hand, sell_idx[1])
             same == SameTypeLoop(hand, sell_idx, selling_type)
         IN  IF same # "ok" THEN Result(g, same)
             ELSE IF selling_type = Camel THEN Result(g, "False")
             ELSE LET sold == SellLoop(g, Len(sell_idx), selling_type)
                  IN  IF sold.ret # "ok" THEN sold
                      ELSE Result(SellBonus(sold.g, Len(sell_idx)), "True")

\* a variant of _do_grab_card that puts the card in the other seat's hand
GrabForOpponent(g, grab_idx) ==
    IF num_cards(g.players[g.whos_turn]) = 7 THEN Result(g, "False")
    ELSE IF ~InRange(g.market, grab_idx) THEN Result(g, "IndexError")
    ELSE LET card_type == At(g.market, grab_idx)
             g1 == [g EXCEPT !.market = RemoveAt(@, Pos(g.market, grab_idx)),
                             !.players[1 - g.whos_turn].hand = Sort(Append(@, card_type))]
         IN  Result(_replenish_market(g1), "True")

\* GameEngine._do_grab_card
\* a variant of _do_grab_card that also refuses a seat holding no goods
GrabNeedsGoods(g, grab_idx) ==
    IF num_cards(g.players[g.whos_turn]) \in {0, 7} THEN Result(g, "False")
    ELSE IF ~InRange(g.market, grab_idx) THEN Result(g, "IndexError")
    ELSE LET card_type == At(g.market, grab_idx)
             g1 == [g EXCEPT !.market = RemoveAt(@, Pos(g.market, grab_idx)),
                             !.players[g.whos_turn].hand = Append(@, card_type)]
         IN  Result(_replenish_market(g1), "True")

_do_grab_card(g, grab_idx) ==
    IF num_cards(g.players[g.whos_turn]) = 7 THEN Result(g, "False")
    ELSE IF ~InRange(g.market, grab_idx) THEN Result(g, "IndexError")
    ELSE LET card_type == At(g.market, grab_idx)
             g1 == [g EXCEPT !.market = RemoveAt(@, Pos(g.market, grab_idx)),
                             !.players[g.whos_turn].hand = Append(@, card_type)]
         IN  Result(_replenish_market(g1), "True")

\* a variant of TradeCamelLoop that lets camels through
TradeCamelLoopAnyCard(mkt, idxs) ==
    IF \E i \in 1..Len(idxs) : ~InRange(mkt, idxs[i]) THEN "IndexError" ELSE "ok"

\* the camel loop of _do_trade_cards, in the order of trade_in
RECURSIVE TradeCamelLoop(_, _)
TradeCamelLoop(mkt, idxs) ==
    IF Len(idxs) = 0 THEN "ok"
    ELSE IF ~InRange(mkt, idxs[1]) THEN "IndexError"
    ELSE IF At(mkt, idxs[1]) = Camel THEN "False"
    ELSE TradeCamelLoop(mkt, Tail(idxs))

\* a variant of TradeLoop that overwrites the hand card before it is kept aside
RECURSIVE TradeLoopNoTemp(_, _, _)
TradeLoopNoTemp(g, trade_in, trade_out) ==
    IF Len(trade_in) = 0 \/ Len(trade_out) = 0 THEN g
    ELSE LET me == g.whos_turn
             g1 == [g EXCEPT !.players[me].hand =
                                 SetAt(@, trade_out[1], At(g.market, trade_in[1]))]
             g2 == [g1 EXCEPT !.market =
                                 SetAt(@, trade_in[1], At(g1.players[me].hand, trade_out[1]))]
         IN  TradeLoopNoTemp(g2, Tail(trade_in), Tail(trade_out))

\* the swapping loop of _do_trade_cards, pair after pair
RECURSIVE TradeLoop(_, _, _)
TradeLoop(g, trade_in, trade_out) ==
    IF Len(trade_in) = 0 \/ Len(trade_out) = 0 THEN g
    ELSE LET me == g.whos_turn
             temp == At(g.players[me].hand, trade_out[1])
             g1 == [g EXCEPT !.players[me].hand =
                                 SetAt(@, trade_out[1], At(g.market, trade_in[1]))]
             g2 == [g1 EXCEPT !.market = SetAt(@, trade_in[1], temp)]
         IN  TradeLoop(g2, Tail(trade_in), Tail(trade_out))

\* a variant of _do_trade_cards that swaps the cards before it compares their types
TradeThenCompare(g, trade_in, trade_out) ==
    LET hand == Hand(g) IN
    IF Len(trade_in) # Len(trade_out) THEN Result(g, "False")
    ELSE IF Len(trade_in) <= 1 THEN Result(g, "False")
    ELSE IF Max(trade_out) > Len(hand) THEN Result(g, "False")
    ELSE IF HasDuplicates(trade_out) THEN Result(g, "False")
    ELSE IF Max(trade_in) > Len(g.market) THEN Result(g, "False")
    ELSE IF HasDuplicates(trade_in) THEN Result(g, "False")
    ELSE LET camels == TradeCamelLoop(g.market, trade_in)
         IN  IF camels # "ok" THEN Result(g, camels)
             ELSE IF \E i \in 1..Len(trade_out) : ~InRange(hand, trade_out[i])
                  THEN Result(g, "IndexError")
             ELSE LET in_types == {At(g.market, trade_in[i]) : i \in 1..Len(trade_in)}
                      out_types == {At(hand, trade_out[i]) : i \in 1..Len(trade_out)}
                      swapped == TradeLoop(g, trade_in, trade_out)
                  IN  IF in_types \cap out_types # {} THEN Result(swapped, "False")
                      ELSE Result(swapped, "True")

\* GameEngine._do_trade_cards
_do_trade_cards(g, trade_in, trade_out) ==
    LET hand == Hand(g) IN
    IF Len(trade_in) # Len(trade_out) THEN Result(g, "False")
    ELSE IF Len(trade_in) <= 1 THEN Result(g, "False")
    ELSE IF Max(trade_out) > Len(hand) THEN Result(g, "False")
    ELSE IF HasDuplicates(trade_out) THEN Result(g, "False")
    ELSE IF Max(trade_in) > Len(g.market) THEN Result(g, "False")
    ELSE IF HasDuplicates(trade_in) THEN Result(g, "False")
    ELSE LET camels == TradeCamelLoop(g.market, trade_in)
         IN  IF camels # "ok" THEN Result(g, camels)
             ELSE IF \E i \in 1..Len(trade_out) : ~InRange(hand, trade_out[i])
                  THEN Result(g, "IndexError")
             ELSE LET in_types == {At(g.market, trade_in[i]) : i \in 1..Len(trade_in)}
                      out_types == {At(hand, trade_out[i]) : i \in 1..Len(trade_out)}
                  IN  IF in_types \cap out_types # {} THEN Result(g, "False")
                      ELSE Result(TradeLoop(g, trade_in, trade_out), "True")

\* a request: the arguments of do_action
Request(top, sell_idx, grab_idx, trade_in, trade_out) ==
    [top |-> top, sell_idx |-> sell_idx, grab_idx |-> grab_idx,
     trade_in |-> trade_in, trade_out |-> trade_out]

\* a variant of Succeed that leaves the turn where it was
SucceedSameSeat(g, r) ==
    [g EXCEPT !.players[g.whos_turn].hand = Sort(@),
              !.last_action = Some(r)]

\* a variant of Succeed that keeps the last action it had
SucceedUnrecorded(g, r) ==
    [g EXCEPT !.players[g.whos_turn].hand = Sort(@),
              !.whos_turn = 1 - g.whos_turn]

\* a variant of Succeed that leaves the hand as the handler left it
SucceedUnsorted(g, r) ==
    [g EXCEPT !.whos_turn = 1 - g.whos_turn,
              !.last_action = Some(r)]

\* the end of do_action after a handler returned True
Succeed(g, r) ==
    [g EXCEPT !.players[g.whos_turn].hand = Sort(@),
              !.whos_turn = 1 - g.whos_turn,
              !.last_action = Some(r)]

\* a variant of do_action that takes a grab index of 0 for an absent one
DoActionFalsyGrab(g, r) ==
    LET handled ==
            CASE r.top = "c" -> _do_take_camels(g)
              [] r.top = "s" ->
                    IF Falsy(r.sell_idx) THEN Result(g, "False")
                    ELSE _do_sell_cards(g, Val(r.sell_idx))
              [] r.top = "g" ->
                    IF IsNone(r.grab_idx) \/ r.grab_idx = Some(0) THEN Result(g, "False")
                    ELSE _do_grab_card(g, Val(r.grab_idx))
              [] r.top = "t" ->
                    IF Falsy(r.trade_in) \/ Falsy(r.trade_out) THEN Result(g, "False")
                    ELSE _do_trade_cards(g, Val(r.trade_in), Val(r.trade_out))
              [] OTHER -> Result(g, "False")
    IN  IF handled.ret = "True"
        THEN Result(Succeed(handled.g, r), "True")
        ELSE handled

\* GameEngine.do_action
do_action(g, r) ==
    LET handled ==
            CASE r.top = "c" -> _do_take_camels(g)
              [] r.top = "s" ->
                    IF Falsy(r.sell_idx) THEN Result(g, "False")
                    ELSE _do_sell_cards(g, Val(r.sell_idx))
              [] r.top = "g" ->
                    IF IsNone(r.grab_idx) THEN Result(g, "False")
                    ELSE _do_grab_card(g, Val(r.grab_idx))
              [] r.top = "t" ->
                    IF Falsy(r.trade_in) \/ Falsy(r.trade_out) THEN Result(g, "False")
                    ELSE _do_trade_cards(g, Val(r.trade_in), Val(r.trade_out))
              [] OTHER -> Result(g, "False")
    IN  IF handled.ret = "True"
        THEN Result(Succeed(handled.g, r), "True")
        ELSE handled

\* a variant of is_done that asks for exactly three empty stacks
is_done_at_three(g) ==
    LET empty_stacks == Cardinality({t \in Goods : Len(g.tokens[t]) = 0}) = 3
        empty_deck == Len(g.deck) = 0
    IN  empty_stacks \/ empty_deck

\* GameEngine.is_done
is_done(g) ==
    LET empty_stacks == Cardinality({t \in Goods : Len(g.tokens[t]) = 0}) > 3
        empty_deck == Len(g.deck) = 0
    IN  empty_stacks \/ empty_deck

-----------------------------------------------------------------------------
(* The queries.  A query gives [g |-> the fields afterwards, ret |-> "returned"
   or the exception raised, value |-> Some(the value returned) or None] *)

Returned(g, v) == [g |-> g, ret |-> "returned", value |-> Some(v)]
Raised(g, e) == [g |-> g, ret |-> e, value |-> None]

\* GameEngine._types, and the names of a list of card indices
_types == <<"leather", "spice", "cloth", "silver", "gold", "diamond", "camels">>
Names(s) == [i \in 1..Len(s) |-> _types[s[i] + 1]]

\* {key: len(value) for key, value in d.items()}
Lens(d) == [key \in DOMAIN d |-> Len(d[key])]

\* GameEngine.get_state.  The entries of the view are evaluated in the order
\* written.  The one of "tokens_left" iterates over _tokens itself, that is
\* over its keys, and unpacks each key into (key, value): a key is an int, so
\* the first one raises TypeError.
get_state(g) ==
    LET me == g.players[g.whos_turn]
        enemy == g.players[(g.whos_turn + 1) % 2]
    IN  IF DOMAIN g.tokens # {}
        THEN Raised(g, "TypeError")
        ELSE Returned(g,
                 [num_deck |-> Len(g.deck),
                  market |-> Names(g.market),
                  tokens_left |-> <<>>,
                  bonus_num_left |-> Lens(g.bonus_tokens),
                  my_hand |-> Names(me.hand),
                  my_tokens |-> me.tokens,
                  my_bonus_num_tokens |-> Lens(me.bonus_tokens),
                  enemy_num_goods |-> num_cards(enemy),
                  enemy_num_camels |-> Len(enemy.hand) - num_cards(enemy),
                  enemy_tokens |-> enemy.tokens,
                  enemy_bonus_num_tokens |-> Lens(enemy.bonus_tokens)])

\* GameEngine.get_last_action
get_last_action(g) == Returned(g, g.last_action)

\* sum([sum(value) for key, value in d.items()])
RECURSIVE SumOfSums(_, _)
SumOfSums(d, keys) ==
    IF keys = {} THEN 0
    ELSE LET key == CHOOSE k \in keys : TRUE
         IN  Sum(d[key]) + SumOfSums(d, keys \ {key})

\* sum([len(value) for key, value in d.items()])
RECURSIVE SumOfLens(_, _)
SumOfLens(d, keys) ==
    IF keys = {} THEN 0
    ELSE LET key == CHOOSE k \in keys : TRUE
         IN  Len(d[key]) + SumOfLens(d, keys \ {key})

\* a variant of FinalScores that gives seat 0 the camel bonus on equal camels
FinalScoresTieToFirst(g) ==
    LET score0 == Sum(g.players[0].tokens)
                      + SumOfSums(g.players[0].bonus_tokens, DOMAIN g.players[0].bonus_tokens)
        score1 == Sum(g.players[1].tokens)
                      + SumOfSums(g.players[1].bonus_tokens, DOMAIN g.players[1].bonus_tokens)
        camels0 == Count(g.players[0].hand, Camel)
        camels1 == Count(g.players[1].hand, Camel)
    IN  IF camels0 >= camels1 THEN <<score0 + 5, score1>>
        ELSE <<score0, score1 + 5>>

\* get_scores, game over: the two scores, the camel bonus included
FinalScores(g) ==
    LET score0 == Sum(g.players[0].tokens)
                      + SumOfSums(g.players[0].bonus_tokens, DOMAIN g.players[0].bonus_tokens)
        score1 == Sum(g.players[1].tokens)
                      + SumOfSums(g.players[1].bonus_tokens, DOMAIN g.players[1].bonus_tokens)
        camels0 == Count(g.players[0].hand, Camel)
        camels1 == Count(g.players[1].hand, Camel)
    IN  IF camels0 > camels1 THEN <<score0 + 5, score1>>
        ELSE IF camels1 > camels0 THEN <<score0, score1 + 5>>
        ELSE <<score0, score1>>

\* a variant of Winner that counts value tokens before bonus tokens
WinnerByTokensFirst(g, score0, score1) ==
    LET num_bonus0 == SumOfLens(g.players[0].bonus_tokens, DOMAIN g.players[0].bonus_tokens)
        num_bonus1 == SumOfLens(g.players[1].bonus_tokens, DOMAIN g.players[1].bonus_tokens)
        num_tokens0 == Len(g.players[0].tokens)
        num_tokens1 == Len(g.players[1].tokens)
    IN  IF score0 > score1 THEN Some(0)
        ELSE IF score1 > score0 THEN Some(1)
        ELSE IF num_tokens0 > num_tokens1 THEN Some(0)
        ELSE IF num_tokens1 > num_tokens0 THEN Some(1)
        ELSE IF num_bonus0 > num_bonus1 THEN Some(0)
        ELSE IF num_bonus1 > num_bonus0 THEN Some(1)
        ELSE None

\* get_scores, game over: the winner, Some(seat) or None
Winner(g, score0, score1) ==
    LET num_bonus0 == SumOfLens(g.players[0].bonus_tokens, DOMAIN g.players[0].bonus_tokens)
        num_bonus1 == SumOfLens(g.players[1].bonus_tokens, DOMAIN g.players[1].bonus_tokens)
        num_tokens0 == Len(g.players[0].tokens)
        num_tokens1 == Len(g.players[1].tokens)
    IN  IF score0 > score1 THEN Some(0)
        ELSE IF score1 > score0 THEN Some(1)
        ELSE IF num_bonus0 > num_bonus1 THEN Some(0)
        ELSE IF num_bonus1 > num_bonus0 THEN Some(1)
        ELSE IF num_tokens0 > num_tokens1 THEN Some(0)
        ELSE IF num_tokens1 > num_tokens0 THEN Some(1)
        ELSE None

\* a variant of get_scores that counts bonus tokens and camels while the game goes on
GetScoresAlwaysFinal(g) ==
    IF ~is_done(g)
    THEN Returned(g, [scores |-> FinalScores(g)])
    ELSE LET scores == FinalScores(g)
         IN  Returned(g, [scores |-> scores, winner |-> Winner(g, scores[1], scores[2])])

\* GameEngine.get_scores: a list of two sums while the game goes on, the pair
\* (list of two scores, winner) once it is over
get_scores(g) ==
    IF ~is_done(g)
    THEN Returned(g, [scores |-> <<Sum(g.players[0].tokens), Sum(g.players[1].tokens)>>])
    ELSE LET scores == FinalScores(g)
         IN  Returned(g, [scores |-> scores, winner |-> Winner(g, scores[1], scores[2])])

-----------------------------------------------------------------------------
(* RandomPlayer.  take_action asks the engine for the view and loops until a
   do_action call has succeeded; it gives the set of the ways it can end:
   [g |-> the fields afterwards, ret |-> "returned", the exception raised, or
   "no return" when no pass of its loop can end it] *)

\* [x for x in names if x != "camel"]: _types spells the card "camels"
NotCamel(names) == SelectSeq(names, LAMBDA x : x # "camel")

\* names.index(x)
IndexOf(names, x) == (CHOOSE i \in 1..Len(names) :
                          names[i] = x /\ \A j \in 1..(i - 1) : names[j] # x) - 1

\* [i for i, x in enumerate(names) if x == v]
RECURSIVE IndicesOf(_, _, _)
IndicesOf(names, v, p) ==
    IF p > Len(names) THEN <<>>
    ELSE (IF names[p] = v THEN <<p - 1>> ELSE <<>>) \o IndicesOf(names, v, p + 1)

\* take_action: my_sellable_goods, as a set of names
Sellable(view) ==
    LET my_goods == NotCamel(view.my_hand)
    IN  {x \in Range(my_goods) :
            ~(x \in {"silver", "gold", "diamond"} /\ Count(my_goods, x) < 2)}

\* take_action: valid_moves
ValidMoves(view) ==
    LET my_hand == view.my_hand
        my_goods == NotCamel(my_hand)
        market_goods == NotCamel(view.market)
        tradeable_market ==
            {i \in 1..Len(market_goods) : market_goods[i] \notin Range(my_hand)}
    IN  (IF "camel" \in Range(view.market) THEN {"c"} ELSE {})
        \cup (IF Len(my_goods) = 7 \/ Len(market_goods) = 0 THEN {} ELSE {"g"})
        \cup (IF Len(my_goods) = 0 \/ Sellable(view) = {} THEN {} ELSE {"s"})
        \cup (IF Len(my_hand) < 2 \/ Cardinality(tradeable_market) < 2
                  \/ Len(market_goods) < 2
              THEN {} ELSE {"t"})

\* random.sample(range(n), k): the lists of k different positions of 1..n
Samples(n, k) ==
    {s \in [1..k -> 1..n] : \A i, j \in 1..k : i # j => s[i] # s[j]}

\* the types of a list in the order of their first appearance (Counter's order)
RECURSIVE FirstSeen(_)
FirstSeen(s) ==
    IF Len(s) = 0 THEN <<>>
    ELSE LET rest == FirstSeen(Front(s))
         IN  IF Last(s) \in Range(rest) THEN rest ELSE Append(rest, Last(s))

\* _find_valid_trade: trade_in for the sampled types, type by type the first
\* market indices of the type
RECURSIVE TradeInFor(_, _, _)
TradeInFor(mkt, types, seen) ==
    IF Len(seen) = 0 THEN <<>>
    ELSE SubSeq(IndicesOf(mkt, Head(seen), 1), 1, Count(types, Head(seen)))
            \o TradeInFor(mkt, types, Tail(seen))

\* _find_valid_trade: what one of its attempts can give: a pair
\* <<trade_in, trade_out>>, or <<>> when the attempt finds no trade
Attempts(view) ==
    LET my_hand == view.my_hand
        mkt == view.market
        market_goods == NotCamel(mkt)
        max_trade == IF Len(market_goods) < Len(my_hand)
                     THEN Len(market_goods) ELSE Len(my_hand)
        options(out) ==
            SelectSeq(mkt, LAMBDA x :
                x \notin {my_hand[out[i]] : i \in 1..Len(out)} /\ x # "camel")
    IN  IF max_trade < 2 THEN {<<>>}
        ELSE UNION {
                 UNION {
                     IF Len(options(out)) >= num_trades
                     THEN {LET types == [i \in 1..num_trades |-> options(out)[pick[i]]]
                           IN  <<TradeInFor(mkt, types, FirstSeen(types)),
                                 [i \in 1..num_trades |-> out[i] - 1]>> :
                              pick \in Samples(Len(options(out)), num_trades)}
                     ELSE {<<>>} :
                     out \in Samples(Len(my_hand), num_trades)} :
                 num_trades \in 2..max_trade}

\* take_action: the requests that one pass of the loop can make for the view
RandomRequests(view) ==
    LET my_hand == view.my_hand
        market_goods == NotCamel(view.market)
        moves == ValidMoves(view)
    IN  (IF "c" \in moves THEN {Request("c", None, None, None, None)} ELSE {})
        \cup (IF "g" \in moves
              THEN {Request("g", None, Some(IndexOf(view.market, grab_type)), None, None) :
                       grab_type \in Range(market_goods)}
              ELSE {})
        \cup (IF "s" \in moves
              THEN {Request("s", Some(IndicesOf(my_hand, selected_type, 1)), None, None, None) :
                       selected_type \in Sellable(view)}
              ELSE {})
        \cup (IF "t" \in moves
              THEN {Request("t", None, None, Some(a[1]), Some(a[2])) :
                       a \in {b \in Attempts(view) : b # <<>> /\ ~Falsy(Some(b[1]))}}
              ELSE {})

\* RandomPlayer.take_action.  An exception of get_state or of do_action, or of
\* random.choice on an empty list of moves, ends the call; a pass whose
\* do_action call returns False, or that finds no trade, changes nothing and
\* is followed by another pass.
take_action(g) ==
    LET got == get_state(g)
    IN  IF got.ret # "returned" THEN {Result(got.g, got.ret)}
        ELSE LET view == Val(got.value)
                 passes == {do_action(g, r) : r \in RandomRequests(view)}
                 ends == {IF p.ret = "True" THEN Result(p.g, "returned") ELSE p :
                             p \in {q \in passes : q.ret # "False"}}
             IN  IF ValidMoves(view) = {} THEN {Result(g, "IndexError")}
                 ELSE IF ends = {} THEN {Result(g, "no return")}
                 ELSE ends

-----------------------------------------------------------------------------
(* Setup *)

\* the deck of _reset before it is shuffled
NewDeck ==
    Repeat(0, cards_per_type[0]) \o Repeat(1, cards_per_type[1])
        \o Repeat(2, cards_per_type[2]) \o Repeat(3, cards_per_type[3])
        \o Repeat(4, cards_per_type[4]) \o Repeat(5, cards_per_type[5])
        \o Repeat(6, cards_per_type[6])

\* a variant of _reset that deals copies and leaves the deck whole
ResetKeepsDeck(shuffled_deck, shuffled_bonus, first) ==
    LET n == Len(shuffled_deck)
        pop(k) == shuffled_deck[n + 1 - k]
    IN  [tokens |-> InitTokens,
         bonus_tokens |-> shuffled_bonus,
         deck |-> shuffled_deck,
         market |-> <<Camel, Camel, Camel, pop(1), pop(2)>>,
         players |-> [p \in Seats |->
                        IF p = 0
                        THEN PlayerState(<<pop(3), pop(4), pop(5), pop(6), pop(7)>>)
                        ELSE PlayerState(<<pop(8), pop(9), pop(10), pop(11), pop(12)>>)],
         whos_turn |-> first,
         last_action |-> None]

\* GameEngine._reset, for the shuffled deck, the shuffled bonus stacks and the
\* first seat that the random source gave
_reset(shuffled_deck, shuffled_bonus, first) ==
    LET n == Len(shuffled_deck)
        pop(k) == shuffled_deck[n + 1 - k]    \* the k-th card popped
    IN  [tokens |-> InitTokens,
         bonus_tokens |-> shuffled_bonus,
         deck |-> SubSeq(shuffled_deck, 1, n - 12),
         market |-> <<Camel, Camel, Camel, pop(1), pop(2)>>,
         players |-> [p \in Seats |->
                        IF p = 0
                        THEN PlayerState(<<pop(3), pop(4), pop(5), pop(6), pop(7)>>)
                        ELSE PlayerState(<<pop(8), pop(9), pop(10), pop(11), pop(12)>>)],
         whos_turn |-> first,
         last_action |-> None]

-----------------------------------------------------------------------------
(* The games played: a shuffle, the requests of a script that the caller   *)
(* makes in turn, and the points of the script (numbers of requests made)  *)
(* from which the caller may go on with requests of its own choice.        *)

GameA ==
    [deck |-> <<0, 0, 6, 2, 0, 6, 2, 0, 6, 2, 0, 6, 2, 0, 6, 2, 0, 6, 2, 0,
                6, 2, 0, 6, 5, 4, 3, 2, 0, 1, 1, 1, 1, 1, 1, 1, 1, 5, 5, 5,
                4, 4, 4, 4, 4, 3, 3, 3, 3, 3, 5, 5>>,
     bonus |-> 3 :> <<1, 2, 3, 1, 2, 3, 2>> @@ 4 :> <<4, 5, 6, 4, 5, 6>> @@ 5 :> <<8, 9, 10, 8, 10>>,
     first |-> 0,
     script |-> <<Request("s", Some(<<0, 1, 2, 3, 4>>), None, None, None),
        Request("s", Some(<<0, 1, 2, 3, 4>>), None, None, None),
        Request("c", None, None, None, None),
        Request("g", None, Some(0), None, None),
        Request("t", None, None, Some(<<0, 1, 2>>), Some(<<0, 1, 2>>)),
        Request("c", None, None, None, None),
        Request("g", None, Some(0), None, None),
        Request("s", Some(<<0>>), None, None, None),
        Request("s", Some(<<0, 1, 2, 3>>), None, None, None),
        Request("t", None, None, Some(<<0, 1, 2>>), Some(<<0, 1, 2>>)),
        Request("c", None, None, None, None),
        Request("g", None, Some(0), None, None),
        Request("g", None, Some(0), None, None),
        Request("g", None, Some(0), None, None),
        Request("g", None, Some(0), None, None),
        Request("s", Some(<<0, 1, 2, 3, 4>>), None, None, None),
        Request("s", Some(<<0, 1>>), None, None, None)>>,
     checkpoints |-> {0, 8, 9, 16, 17}]

GameB ==
    [deck |-> <<6, 6, 0, 6, 0, 6, 1, 0, 6, 3, 2, 1, 0, 6, 4, 3, 2, 1, 0, 6,
                5, 4, 3, 2, 1, 0, 6, 5, 4, 3, 2, 1, 0, 2, 0, 1, 2, 3, 5, 4,
                5, 5, 4, 2, 1, 3, 2, 1, 0, 0, 5, 4>>,
     bonus |-> 3 :> <<3, 2, 1, 2, 3, 1, 2>> @@ 4 :> <<6, 5, 4, 6, 5, 4>> @@ 5 :> <<10, 9, 8, 10, 8>>,
     first |-> 0,
     script |-> <<Request("c", None, None, None, None),
        Request("g", None, Some(0), None, None),
        Request("t", None, None, Some(<<0, 1>>), Some(<<5, 6>>)),
        Request("c", None, None, None, None),
        Request("t", None, None, Some(<<0, 1>>), Some(<<0, 7>>)),
        Request("c", None, None, None, None),
        Request("s", Some(<<3, 4>>), None, None, None),
        Request("s", Some(<<2, 3>>), None, None, None),
        Request("s", Some(<<4, 5>>), None, None, None),
        Request("g", None, Some(0), None, None),
        Request("g", None, Some(0), None, None),
        Request("g", None, Some(0), None, None),
        Request("g", None, Some(0), None, None),
        Request("s", Some(<<1, 2>>), None, None, None),
        Request("s", Some(<<0, 1>>), None, None, None),
        Request("g", None, Some(0), None, None),
        Request("g", None, Some(0), None, None),
        Request("g", None, Some(0), None, None),
        Request("c", None, None, None, None),
        Request("s", Some(<<2, 3>>), None, None, None),
        Request("g", None, Some(0), None, None),
        Request("g", None, Some(0), None, None),
        Request("s", Some(<<2, 3, 4>>), None, None, None),
        Request("g", None, Some(0), None, None),
        Request("g", None, Some(0), None, None),
        Request("s", Some(<<4, 5>>), None, None, None),
        Request("g", None, Some(0), None, None),
        Request("g", None, Some(0), None, None),
        Request("c", None, None, None, None),
        Request("g", None, Some(0), None, None),
        Request("g", None, Some(0), None, None),
        Request("s", Some(<<1, 2>>), None, None, None),
        Request("s", Some(<<0, 1>>), None, None, None),
        Request("g", None, Some(0), None, None),
        Request("g", None, Some(0), None, None),
        Request("g", None, Some(0), None, None),
        Request("c", None, None, None, None),
        Request("s", Some(<<0, 1>>), None, None, None),
        Request("g", None, Some(0), None, None),
        Request("g", None, Some(0), None, None),
        Request("s", Some(<<0, 1>>), None, None, None),
        Request("g", None, Some(0), None, None),
        Request("g", None, Some(0), None, None),
        Request("c", None, None, None, None),
        Request("g", None, Some(0), None, None),
        Request("s", Some(<<0, 1>>), None, None, None),
        Request("s", Some(<<2, 3>>), None, None, None),
        Request("g", None, Some(0), None, None),
        Request("c", None, None, None, None),
        Request("g", None, Some(0), None, None),
        Request("c", None, None, None, None),
        Request("s", Some(<<2, 3>>), None, None, None),
        Request("g", None, Some(0), None, None),
        Request("c", None, None, None, None)>>,
     checkpoints |-> {0, 4, 6, 53, 54}]

GameC ==
    [deck |-> <<6, 6, 0, 6, 0, 6, 1, 0, 6, 3, 2, 1, 0, 6, 4, 3, 2, 1, 0, 6,
                5, 4, 3, 2, 1, 0, 6, 5, 4, 3, 2, 1, 0, 2, 0, 1, 2, 3, 5, 4,
                5, 5, 4, 2, 1, 3, 2, 1, 0, 0, 5, 4>>,
     bonus |-> 3 :> <<3, 2, 1, 2, 3, 1, 2>> @@ 4 :> <<6, 5, 4, 6, 5, 4>> @@ 5 :> <<10, 9, 8, 10, 8>>,
     first |-> 1,
     script |-> <<>>,
     checkpoints |-> {0}]

GameD ==
    [deck |-> <<6, 0, 4, 2, 0, 5, 2, 1, 4, 0, 3, 6, 5, 1, 2, 6, 6, 2, 5, 5,
                1, 6, 4, 2, 2, 3, 4, 1, 4, 0, 2, 1, 1, 6, 0, 3, 5, 0, 6, 0,
                1, 2, 5, 3, 3, 3, 0, 1, 0, 6, 4, 0>>,
     bonus |-> 3 :> <<2, 3, 2, 1, 2, 3, 1>> @@ 4 :> <<4, 4, 5, 5, 6, 6>> @@ 5 :> <<8, 8, 10, 10, 9>>,
     first |-> 0,
     script |-> <<Request("g", None, Some(3), None, None),
        Request("g", None, Some(4), None, None),
        Request("s", Some(<<0, 1, 2>>), None, None, None),
        Request("g", None, Some(3), None, None),
        Request("g", None, Some(4), None, None),
        Request("c", None, None, None, None),
        Request("g", None, Some(2), None, None),
        Request("c", None, None, None, None),
        Request("g", None, Some(3), None, None),
        Request("s", Some(<<3, 4>>), None, None, None),
        Request("g", None, Some(4), None, None),
        Request("g", None, Some(2), None, None),
        Request("s", Some(<<0, 1, 2>>), None, None, None),
        Request("g", None, Some(4), None, None),
        Request("g", None, Some(1), None, None),
        Request("s", Some(<<1, 2, 3>>), None, None, None),
        Request("g", None, Some(4), None, None),
        Request("g", None, Some(4), None, None),
        Request("s", Some(<<2, 3, 4>>), None, None, None),
        Request("g", None, Some(4), None, None),
        Request("g", None, Some(1), None, None),
        Request("s", Some(<<1, 2, 3>>), None, None, None),
        Request("g", None, Some(3), None, None),
        Request("g", None, Some(2), None, None),
        Request("g", None, Some(3), None, None),
        Request("g", None, Some(1), None, None),
        Request("s", Some(<<0, 1, 2>>), None, None, None),
        Request("s", Some(<<1, 2, 3>>), None, None, None),
        Request("g", None, Some(4), None, None),
        Request("g", None, Some(3), None, None),
        Request("g", None, Some(2), None, None),
        Request("g", None, Some(0), None, None),
        Request("g", None, Some(3), None, None),
        Request("s", Some(<<1, 2, 3>>), None, None, None)>>,
     checkpoints |-> {33, 34}]

\* GameE: play that goes on after the deck has run out: the final scores are
\* equal with equal numbers of bonus and value tokens after call 55, and equal
\* with more value tokens for seat 1 after call 57
GameE ==
    [deck |-> <<0, 2, 1, 1, 5, 1, 6, 3, 2, 0, 1, 0, 2, 3, 5, 0, 4, 5, 0, 5,
                0, 6, 6, 4, 0, 4, 0, 0, 3, 1, 1, 1, 2, 6, 4, 3, 2, 4, 1, 6,
                0, 5, 6, 2, 5, 2, 4, 6, 6, 3, 3, 2>>,
     bonus |-> 3 :> <<3, 3, 1, 2, 2, 2, 1>> @@ 4 :> <<4, 4, 6, 5, 6, 5>> @@ 5 :> <<10, 9, 8, 10, 8>>,
     first |-> 1,
     script |-> <<Request("s", Some(<<2, 3>>), None, None, None),
        Request("g", None, Some(3), None, None),
        Request("g", None, Some(3), None, None),
        Request("s", Some(<<0, 1>>), None, None, None),
        Request("c", None, None, None, None),
        Request("g", None, Some(2), None, None),
        Request("g", None, Some(3), None, None),
        Request("g", None, Some(0), None, None),
        Request("g", None, Some(3), None, None),
        Request("g", None, Some(1), None, None),
        Request("g", None, Some(3), None, None),
        Request("s", Some(<<2, 3>>), None, None, None),
        Request("s", Some(<<2, 3>>), None, None, None),
        Request("g", None, Some(4), None, None),
        Request("c", None, None, None, None),
        Request("g", None, Some(1), None, None),
        Request("g", None, Some(1), None, None),
        Request("s", Some(<<0, 1>>), None, None, None),
        Request("g", None, Some(3), None, None),
        Request("g", None, Some(4), None, None),
        Request("g", None, Some(3), None, None),
        Request("s", Some(<<2, 3>>), None, None, None),
        Request("s", Some(<<5, 6>>), None, None, None),
        Request("g", None, Some(0), None, None),
        Request("s", Some(<<0>>), None, None, None),
        Request("g", None, Some(0), None, None),
        Request("s", Some(<<1, 2>>), None, None, None),
        Request("g", None, Some(4), None, None),
        Request("c", None, None, None, None),
        Request("g", None, Some(4), None, None),
        Request("g", None, Some(4), None, None),
        Request("s", Some(<<3, 4>>), None, None, None),
        Request("s", Some(<<0, 1>>), None, None, None),
        Request("g", None, Some(4), None, None),
        Request("g", None, Some(4), None, None),
        Request("s", Some(<<3, 4>>), None, None, None),
        Request("g", None, Some(0), None, None),
        Request("g", None, Some(2), None, None),
        Request("g", None, Some(2), None, None),
        Request("g", None, Some(0), None, None),
        Request("s", Some(<<2, 3>>), None, None, None),
        Request("g", None, Some(3), None, None),
        Request("g", None, Some(1), None, None),
        Request("s", Some(<<0, 1>>), None, None, None),
        Request("c", None, None, None, None),
        Request("g", None, Some(4), None, None),
        Request("s", Some(<<0, 1>>), None, None, None),
        Request("s", Some(<<0>>), None, None, None),
        Request("g", None, Some(1), None, None),
        Request("g", None, Some(3), None, None),
        Request("s", Some(<<1>>), None, None, None),
        Request("s", Some(<<1>>), None, None, None),
        Request("g", None, Some(4), None, None),
        Request("s", Some(<<2, 3>>), None, None, None),
        Request("g", None, Some(0), None, None),
        Request("s", Some(<<0>>), None, None, None),
        Request("s", Some(<<1, 2>>), None, None, None)>>,
     checkpoints |-> {}]

\* GameF: the final scores are equal after call 54, seat 1 ahead by value
\* tokens, and after call 56, seat 0 ahead by bonus tokens and behind by value
\* tokens
GameF ==
    [deck |-> <<5, 6, 4, 2, 4, 0, 3, 2, 4, 6, 2, 3, 2, 0, 0, 6, 2, 0, 0, 5,
                0, 4, 3, 2, 2, 6, 1, 6, 6, 1, 0, 3, 3, 5, 4, 1, 6, 1, 0, 1,
                6, 0, 1, 5, 4, 0, 3, 5, 1, 2, 1, 5>>,
     bonus |-> 3 :> <<1, 3, 3, 2, 2, 1, 2>> @@ 4 :> <<6, 6, 5, 5, 4, 4>> @@ 5 :> <<10, 8, 10, 8, 9>>,
     first |-> 1,
     script |-> <<Request("c", None, None, None, None),
        Request("g", None, Some(4), None, None),
        Request("g", None, Some(2), None, None),
        Request("g", None, Some(0), None, None),
        Request("g", None, Some(1), None, None),
        Request("s", Some(<<5, 6>>), None, None, None),
        Request("s", Some(<<2, 3>>), None, None, None),
        Request("s", Some(<<1, 2>>), None, None, None),
        Request("s", Some(<<0, 1>>), None, None, None),
        Request("c", None, None, None, None),
        Request("g", None, Some(0), None, None),
        Request("g", None, Some(2), None, None),
        Request("g", None, Some(4), None, None),
        Request("g", None, Some(1), None, None),
        Request("c", None, None, None, None),
        Request("c", None, None, None, None),
        Request("g", None, Some(0), None, None),
        Request("s", Some(<<0>>), None, None, None),
        Request("g", None, Some(1), None, None),
        Request("g", None, Some(2), None, None),
        Request("s", Some(<<1>>), None, None, None),
        Request("g", None, Some(4), None, None),
        Request("g", None, Some(0), None, None),
        Request("c", None, None, None, None),
        Request("s", Some(<<2, 3>>), None, None, None),
        Request("s", Some(<<1>>), None, None, None),
        Request("g", None, Some(0), None, None),
        Request("s", Some(<<0>>), None, None, None),
        Request("s", Some(<<1, 2>>), None, None, None),
        Request("g", None, Some(4), None, None),
        Request("g", None, Some(4), None, None),
        Request("s", Some(<<3, 4>>), None, None, None),
        Request("g", None, Some(0), None, None),
        Request("g", None, Some(1), None, None),
        Request("s", Some(<<0, 1>>), None, None, None),
        Request("s", Some(<<2, 3>>), None, None, None),
        Request("c", None, None, None, None),
        Request("g", None, Some(2), None, None),
        Request("g", None, Some(2), None, None),
        Request("g", None, Some(1), None, None),
        Request("s", Some(<<0, 1>>), None, None, None),
        Request("s", Some(<<0, 1>>), None, None, None),
        Request("g", None, Some(4), None, None),
        Request("g", None, Some(1), None, None),
        Request("g", None, Some(0), None, None),
        Request("g", None, Some(4), None, None),
        Request("g", None, Some(0), None, None),
        Request("g", None, Some(3), None, None),
        Request("g", None, Some(0), None, None),
        Request("g", None, Some(2), None, None),
        Request("s", Some(<<2, 3>>), None, None, None),
        Request("c", None, None, None, None),
        Request("g", None, Some(3), None, None),
        Request("g", None, Some(0), None, None),
        Request("s", Some(<<1, 2>>), None, None, None),
        Request("s", Some(<<1, 2, 3>>), None, None, None)>>,
     checkpoints |-> {}]

\* More shuffles, for the setup alone: the new deck dealt out from place k in
\* strides of j places, a stride that has no factor in common with the deck's
\* 52 cards; the bonus stacks as they were built; no request is made.
Strides == <<1, 3, 5, 7, 9, 11>>
Cut(j, k) ==
    [i \in 1..Len(NewDeck) |-> NewDeck[(((i - 1) * j + k) % Len(NewDeck)) + 1]]
Dealt(n) ==
    [deck |-> Cut(Strides[((n - 1) \div (2 * Len(NewDeck))) + 1],
                  ((n - 1) \div 2) % Len(NewDeck)),
     bonus |-> InitBonusTokens,
     first |-> (n - 1) % 2,
     script |-> <<>>,
     checkpoints |-> {}]

Games ==
    <<GameA, GameB, GameC, GameD, GameE, GameF>>
        \o [n \in 1..(Len(Strides) * 2 * Len(NewDeck)) |-> Dealt(n)]

\* how many successful requests the caller makes off the script
MaxFree == 1
\* the longest sale and the longest trade the caller asks for off the script
MaxSell == 5
MaxTrade == 2

-----------------------------------------------------------------------------
(* The requests the caller chooses from *)

\* the indices around the ends of a list of length n
Probe(n) == {-(n + 1), -1, 0, n - 1, n, n + 1}

\* <<i, i+1, ..., i+k-1>>
Run(i, k) == [j \in 1..k |-> i + j - 1]
\* the runs of up to maxk indices of a list of length n
Runs(n, maxk) == UNION {{Run(i, k) : i \in 0..(n - k)} : k \in 1..maxk}
\* the increasing lists of k indices of a list of length n
Ascending(n, k) ==
    {s \in [1..k -> 0..(n - 1)] : \A i \in 1..(k - 1) : s[i] < s[i + 1]}
\* the pairs of indices around the ends of a list of length n
ProbePairs(n) == {<<a, b>> : a \in Probe(n), b \in Probe(n)}

NoArgs(top) == Request(top, None, None, None, None)

TakeRequests == {NoArgs("c")}

UnknownRequests == {NoArgs("x")}

GrabRequests(g) ==
    {NoArgs("g")} \cup
    {Request("g", None, Some(i), None, None) :
        i \in Probe(Len(g.market)) \cup 0..(Len(g.market) - 1)}

SellRequests(g) ==
    LET n == Len(Hand(g))
    IN  {Request("s", idx, None, None, None) :
            idx \in {None, Some(<<>>)}
                \cup {Some(<<a>>) : a \in Probe(n)}
                \cup {Some(p) : p \in ProbePairs(n)}
                \cup {Some(<<0, n, n - 1>>)}
                \cup {Some(r) : r \in Runs(n, MaxSell)}}

TradeRequests(g) ==
    LET n == Len(Hand(g))
        m == Len(g.market)
        Trade(in, out) == Request("t", None, None, in, out)
    IN  \* the lists a caller would give: market cards by increasing index for
        \* a run of hand cards
        {Trade(Some(in), Some(Run(i, k))) :
            in \in UNION {Ascending(m, k) : k \in 2..MaxTrade},
            i \in 0..(n - 2), k \in 2..MaxTrade}
        \* indices around the ends of the market, or of the hand
        \cup {Trade(Some(in), Some(Run(i, 2))) : in \in ProbePairs(m), i \in {0, n - 2}}
        \cup {Trade(Some(in), Some(<<a, b>>)) :
                in \in Ascending(m, 2), a \in {-2, 0}, b \in Probe(n)}
        \* two indices of one hand card
        \cup {Trade(Some(in), Some(out)) :
                in \in Ascending(m, 2), out \in {<<-1, n - 1>>, <<n - 1, -1>>}}
        \* lists that are absent, empty, too short or of different lengths
        \cup {Trade(in, out) :
                in \in {None, Some(<<>>), Some(<<0>>), Some(<<0, 1>>)},
                out \in {None, Some(<<>>), Some(<<0>>), Some(<<0, 1>>)}}

-----------------------------------------------------------------------------
(* The caller and the specification *)

NoCall == "no call"

Script == Games[game].script
OnScript(r) == free = 0 /\ step < Len(Script) /\ r = Script[step + 1]
MayLeaveScript == free > 0 \/ step \in Games[game].checkpoints

\* the next request of the script, if it has the given top
Scripted(top) ==
    IF free = 0 /\ step < Len(Script) /\ Script[step + 1].top = top
    THEN {Script[step + 1]} ELSE {}

Init ==
    \E i \in 1..Len(Games) :
        LET d == Games[i]
            g == _reset(d.deck, d.bonus, d.first)
        IN  /\ IsShuffleOf(d.deck, NewDeck)
            /\ \A n \in Tiers : IsShuffleOf(d.bonus[n], InitBonusTokens[n])
            /\ d.first \in Seats
            /\ tokens = g.tokens
            /\ bonus_tokens = g.bonus_tokens
            /\ deck = g.deck
            /\ market = g.market
            /\ players = g.players
            /\ whos_turn = g.whos_turn
            /\ last_action = g.last_action
            /\ req = None
            /\ ret = NoCall
            /\ answer = None
            /\ game = i
            /\ step = 0
            /\ free = 0

\* the requests the caller may make now: the script's next one and, at a
\* checkpoint or once off the script, those of its own choice
Candidates(top, own) == IF MayLeaveScript THEN own \cup Scripted(top) ELSE Scripted(top)

\* no call is pending, and the caller has not made its last call
Ready == ret = NoCall /\ free < MaxFree

\* one call of do_action.  A call that changes the game is the script's next
\* one, or one of the MaxFree the caller makes off it; after the last of
\* these the caller makes no further call.
Call(r) ==
    /\ \E res \in {do_action(G, r)} :
           /\ \/ /\ res.g = G
                 /\ UNCHANGED <<step, free>>
              \/ /\ res.g # G
                 /\ OnScript(r)
                 /\ step' = step + 1
                 /\ free' = free
              \/ /\ res.g # G
                 /\ ~OnScript(r)
                 /\ free' = free + 1
                 /\ step' = step
           /\ tokens' = res.g.tokens
           /\ bonus_tokens' = res.g.bonus_tokens
           /\ deck' = res.g.deck
           /\ market' = res.g.market
           /\ players' = res.g.players
           /\ whos_turn' = res.g.whos_turn
           /\ last_action' = res.g.last_action
           /\ req' = Some(r)
           /\ ret' = res.ret
    /\ answer' = None
    /\ game' = game

TakeCamels == Ready /\ \E r \in Candidates("c", TakeRequests) : Call(r)
Grab == Ready /\ \E r \in Candidates("g", GrabRequests(G)) : Call(r)
Sell == Ready /\ \E r \in Candidates("s", SellRequests(G)) : Call(r)
Trade == Ready /\ \E r \in Candidates("t", TradeRequests(G)) : Call(r)
Unknown == Ready /\ \E r \in Candidates("x", UnknownRequests) : Call(r)

\* the caller takes the result and is ready for its next call
Return ==
    /\ ret # NoCall
    /\ ret' = NoCall
    /\ req' = None
    /\ answer' = None
    /\ UNCHANGED <<engine, game, step, free>>

\* one call of a query method: q is what the method gives in the present state
Query(method, q) ==
    /\ Ready
    /\ tokens' = q.g.tokens
    /\ bonus_tokens' = q.g.bonus_tokens
    /\ deck' = q.g.deck
    /\ market' = q.g.market
    /\ players' = q.g.players
    /\ whos_turn' = q.g.whos_turn
    /\ last_action' = q.g.last_action
    /\ req' = None
    /\ ret' = q.ret
    /\ answer' = Some([method |-> method, value |-> q.value])
    /\ UNCHANGED <<game, step, free>>

GetState == Query("get_state", get_state(G))
GetLastAction == Query("get_last_action", get_last_action(G))
GetScores == Query("get_scores", get_scores(G))

\* one call of RandomPlayer.take_action for the seat to move
RandomPlayerTakeAction ==
    /\ Ready
    /\ \E res \in take_action(G) :
           /\ tokens' = res.g.tokens
           /\ bonus_tokens' = res.g.bonus_tokens
           /\ deck' = res.g.deck
           /\ market' = res.g.market
           /\ players' = res.g.players
           /\ whos_turn' = res.g.whos_turn
           /\ last_action' = res.g.last_action
           /\ ret' = res.ret
           /\ free' = IF res.g = G THEN free ELSE free + 1
    /\ req' = None
    /\ answer' = Some([method |-> "take_action", value |-> None])
    /\ UNCHANGED <<game, step>>

Next ==
    \/ TakeCamels \/ Grab \/ Sell \/ Trade \/ Unknown
    \/ GetState \/ GetLastAction \/ GetScores
    \/ RandomPlayerTakeAction
    \/ Return

Spec == Init /\ [][Next]_vars

-----------------------------------------------------------------------------
(* What the claims speak of *)

\* the call that just ended
Called == req # None
Top == Val(req).top

\* the next state is the end of a call of do_action
Calls == req' # None
Asked == Val(req')

Me == players[whos_turn]
TotalCards ==
    Len(deck) + Len(market) + Len(players[0].hand) + Len(players[1].hand)
EmptyStacks == Cardinality({t \in Goods : Len(tokens[t]) = 0})

\* s holds what u holds and one more card c
IsWithCard(s, u, c) ==
    \A t \in 0..6 : Count(s, t) = Count(u, t) + (IF t = c THEN 1 ELSE 0)

-----------------------------------------------------------------------------
(* C1: deck, market and both hands together always hold as many cards as   *)
(* right after setup; no successful action, sell included, takes a card    *)
(* out of them.  The code's sale drops the sold cards.                     *)
C1_CardConservation == TotalCards = Len(NewDeck) + 3

(* C1, amended: the number of cards in deck, market and both hands never   *)
(* grows; every call other than a sell, and every call that returns        *)
(* failure, leaves it as it was; a sell that returns success for n indices *)
(* lowers it by exactly n.                                                 *)
C1_CardsLeaveOnlyBySale ==
    [][/\ TotalCards' <= TotalCards
       /\ TotalCards' <= Len(NewDeck) + 3
       /\ (Calls /\ (Asked.top # "s" \/ ret' = "False"))
            => TotalCards' = TotalCards
       /\ (Calls /\ Asked.top = "s" /\ ret' = "True")
            => TotalCards' = TotalCards - Len(Val(Asked.sell_idx))]_vars

\* a sell of three or more cards has just succeeded, and they are gone
C1_Witness ==
    /\ Called /\ Top = "s" /\ ret = "True"
    /\ Len(Val(Val(req).sell_idx)) >= 3
    /\ TotalCards < Len(NewDeck) + 3

(* C2: is_done() is true exactly when the deck is empty or at least 3 of   *)
(* the 6 token stacks are empty.  The code asks for more than 3.           *)
C2_DoneAtThreeEmptyStacks ==
    is_done(G) <=> (Len(deck) = 0 \/ EmptyStacks >= 3)

(* C3: once is_done() is true it stays true, whatever do_action is asked.  *)
C3_DoneStaysDone == [][is_done(G) => is_done(G')]_vars

\* a sell has just succeeded with the deck already empty
C3_Witness ==
    /\ Called /\ Top = "s" /\ ret = "True"
    /\ Len(deck) = 0
    /\ is_done(G)

(* C4: whos_turn is 0 or 1; a call that returns success changes it from s  *)
(* to 1 - s, a call that returns failure leaves it as it was.              *)
C4_TurnAlternation ==
    [][/\ whos_turn \in Seats /\ whos_turn' \in Seats
       /\ (Calls /\ ret' = "True") => whos_turn' = 1 - whos_turn
       /\ (Calls /\ ret' = "False") => whos_turn' = whos_turn]_vars

\* the script's second call has just succeeded: the turn is back at the first seat
C4_Witness ==
    /\ Called /\ ret = "True"
    /\ step = 2 /\ free = 0
    /\ whos_turn = Games[game].first

(* C5: a call that returns failure leaves the whole game state (deck,      *)
(* market, hands, tokens, bonus tokens, banks, whos_turn, last action) as  *)
(* it was.                                                                 *)
C5_FailureChangesNothing == [][(Calls /\ ret' = "False") => UNCHANGED engine]_vars

\* a trade of two cards for two has just been refused
C5_Witness ==
    /\ Called /\ Top = "t" /\ ret = "False"
    /\ ~IsNone(Val(req).trade_in) /\ ~IsNone(Val(req).trade_out)
    /\ Len(Val(Val(req).trade_in)) = 2 /\ Len(Val(Val(req).trade_out)) = 2

\* the request r names an index at or beyond the end of the list it indexes
BeyondBounds(r, g) ==
    \/ /\ r.top = "g" /\ ~IsNone(r.grab_idx)
       /\ Val(r.grab_idx) >= Len(g.market)
    \/ /\ r.top = "s" /\ ~Falsy(r.sell_idx)
       /\ \E i \in 1..Len(Val(r.sell_idx)) : Val(r.sell_idx)[i] >= Len(Hand(g))
    \/ /\ r.top = "t" /\ ~Falsy(r.trade_in) /\ ~Falsy(r.trade_out)
       /\ \/ \E i \in 1..Len(Val(r.trade_out)) : Val(r.trade_out)[i] >= Len(Hand(g))
          \/ \E i \in 1..Len(Val(r.trade_in)) : Val(r.trade_in)[i] >= Len(g.market)

(* C6: a grab, sell or trade with an index at or beyond the end of the     *)
(* market or hand returns failure and changes nothing; it never raises.    *)
(* The code raises IndexError.                                             *)
C6_BeyondBoundsIsFailure ==
    [][(Calls /\ BeyondBounds(Asked, G)) => (ret' = "False" /\ UNCHANGED engine)]_vars

\* the request r is a sell, or a trade giving hand cards, with a negative index
NegativeIndex(r) ==
    \/ /\ r.top = "s" /\ ~Falsy(r.sell_idx)
       /\ \E i \in 1..Len(Val(r.sell_idx)) : Val(r.sell_idx)[i] < 0
    \/ /\ r.top = "t" /\ ~Falsy(r.trade_in) /\ ~Falsy(r.trade_out)
       /\ \E i \in 1..Len(Val(r.trade_out)) : Val(r.trade_out)[i] < 0

(* C7: a sell with a negative index, and a trade with a negative hand      *)
(* index, return failure and change nothing.  The code counts a negative   *)
(* index from the end of the hand.                                         *)
C7_NegativeIndexIsFailure ==
    [][(Calls /\ NegativeIndex(Asked)) => (ret' = "False" /\ UNCHANGED engine)]_vars

(* C8: a grab of a market slot that holds a camel returns failure and      *)
(* changes nothing.  The code hands the camel over.                        *)
C8_GrabCamelIsFailure ==
    [][(/\ Calls /\ Asked.top = "g" /\ ~IsNone(Asked.grab_idx)
        /\ Val(Asked.grab_idx) \in 0..(Len(market) - 1)
        /\ At(market, Val(Asked.grab_idx)) = Camel)
       => (ret' = "False" /\ UNCHANGED engine)]_vars

(* C9: while the seat to move holds 7 or more cards that are not camels, a *)
(* grab fails and changes nothing.  The code refuses only at exactly 7.    *)
C9_GrabFailsAtSevenOrMore ==
    [][(Calls /\ Asked.top = "g" /\ num_cards(Me) >= 7)
       => (ret' # "True" /\ UNCHANGED engine)]_vars

(* C10: a successful grab of market index i adds exactly the card that     *)
(* was at market[i] to the hand of the seat that moved; with a card in the *)
(* deck, the deck's last card is drawn into the market (the market keeps   *)
(* its size, the deck loses one card); with the deck empty the market      *)
(* loses one card and the deck stays empty.  Nothing else is touched.      *)
C10_GrabEffect ==
    [][(Calls /\ Asked.top = "g" /\ ret' = "True") =>
        LET i == Val(Asked.grab_idx)
            card == At(market, i)
            rest == RemoveAt(market, Pos(market, i))
        IN  /\ InRange(market, i)
            /\ Len(players'[whos_turn].hand) = Len(Me.hand) + 1
            /\ IsWithCard(players'[whos_turn].hand, Me.hand, card)
            /\ IF Len(deck) > 0
               THEN /\ deck' = Front(deck)
                    /\ market' = Append(rest, Last(deck))
                    /\ Len(market') = Len(market)
               ELSE /\ deck' = deck
                    /\ market' = rest
                    /\ Len(market') = Len(market) - 1
            /\ players'[whos_turn].tokens = Me.tokens
            /\ players'[whos_turn].bonus_tokens = Me.bonus_tokens
            /\ players'[1 - whos_turn] = players[1 - whos_turn]
            /\ UNCHANGED <<tokens, bonus_tokens>>]_vars

\* a grab has just succeeded with the deck empty: the market is a card short
C10_Witness ==
    /\ Called /\ Top = "g" /\ ret = "True"
    /\ Len(deck) = 0
    /\ Len(market) = 4

-----------------------------------------------------------------------------
(* Sales *)

\* silver, gold and diamond
Gems == {3, 4, 5}

\* the next state is the end of a sell that reached _do_sell_cards
IsSell == Calls /\ Asked.top = "s" /\ ~Falsy(Asked.sell_idx)
SoldIdx == Val(Asked.sell_idx)

\* the indices idxs are distinct positions 0..len-1 of the list s
Proper(s, idxs) ==
    /\ ~HasDuplicates(idxs)
    /\ \A i \in 1..Len(idxs) : idxs[i] \in 0..(Len(s) - 1)

\* the types of the cards of s that the indices idxs refer to
Referenced(s, idxs) ==
    {At(s, idxs[i]) : i \in {j \in 1..Len(idxs) : InRange(s, idxs[j])}}

(* C11: a sell of exactly one silver, gold or diamond card fails and       *)
(* changes nothing; a sell of two or more cards of one of these types, by  *)
(* distinct indices within the hand, succeeds.  The code has no minimum.   *)
C11_GemMinimum ==
    [][(/\ IsSell
        /\ Proper(Me.hand, SoldIdx)
        /\ Cardinality(Referenced(Me.hand, SoldIdx)) = 1
        /\ Referenced(Me.hand, SoldIdx) \subseteq Gems)
       => IF Len(SoldIdx) = 1
          THEN ret' = "False" /\ UNCHANGED engine
          ELSE ret' = "True"]_vars

(* C12: a sell whose index list has a duplicate returns failure; a sell    *)
(* whose indices refer to cards of more than one type, or to camels only,  *)
(* does not succeed, and returns failure when every index refers to a      *)
(* hand card; in each case nothing changes.                                *)
C12_SellValidation ==
    [][IsSell =>
        /\ HasDuplicates(SoldIdx) => (ret' = "False" /\ UNCHANGED engine)
        /\ (\/ Cardinality(Referenced(Me.hand, SoldIdx)) > 1
            \/ Referenced(Me.hand, SoldIdx) = {Camel})
           => /\ ret' # "True"
              /\ UNCHANGED engine
              /\ (\A i \in 1..Len(SoldIdx) : InRange(Me.hand, SoldIdx[i]))
                    => ret' = "False"]_vars

\* a sell of two hand cards of different types has just been refused
C12_Witness ==
    /\ Called /\ Top = "s" /\ ret = "False"
    /\ ~Falsy(Val(req).sell_idx)
    /\ Proper(Me.hand, Val(Val(req).sell_idx))
    /\ Len(Val(Val(req).sell_idx)) = 2
    /\ Cardinality(Referenced(Me.hand, Val(Val(req).sell_idx))) = 2

\* the next state is the end of a sell that succeeded
Sold == IsSell /\ ret' = "True"
SoldType == At(Me.hand, SoldIdx[1])
\* the value tokens a sale of n cards takes from a stack, in the order taken
Taken(stack, n) ==
    [j \in 1..(IF n < Len(stack) THEN n ELSE Len(stack)) |-> stack[Len(stack) - j + 1]]

(* C13: a successful sell of n cards of good g, with k value tokens on g's *)
(* stack, takes exactly n cards of type g out of the hand of the seat that *)
(* moved and moves exactly min(n, k) tokens from g's stack to that seat,   *)
(* each the highest value left on the stack when taken; with k = 0 the     *)
(* sale succeeds and no token moves.                                       *)
C13_SellEffect ==
    [][Sold =>
        LET me == whos_turn
            n == Len(SoldIdx)
            stack == tokens[SoldType]
            taken == Taken(stack, n)
        IN  /\ SoldType \in Goods
            /\ Len(players'[me].hand) = Len(Me.hand) - n
            /\ \A t \in 0..6 :
                  Count(players'[me].hand, t) =
                      Count(Me.hand, t) - (IF t = SoldType THEN n ELSE 0)
            /\ Len(taken) = (IF n < Len(stack) THEN n ELSE Len(stack))
            /\ tokens'[SoldType] = SubSeq(stack, 1, Len(stack) - Len(taken))
            /\ players'[me].tokens = Me.tokens \o taken
            /\ \A j \in 1..Len(taken) :
                  \A i \in 1..(Len(stack) - j + 1) : stack[i] <= taken[j]
            /\ \A t \in Goods \ {SoldType} : tokens'[t] = tokens[t]
            /\ players'[1 - me] = players[1 - me]
            /\ UNCHANGED <<deck, market>>]_vars

\* GameB, one card left in the deck: seat 1 has just sold its only cloth, the
\* card at index 1, with the cloth stack empty, and still holds 16 tokens
C13_Witness ==
    /\ game = 2 /\ step = 53 /\ free = 1
    /\ Called /\ Top = "s" /\ ret = "True"
    /\ Val(Val(req).sell_idx) = <<1>>
    /\ Len(tokens[2]) = 0
    /\ Count(players[1].hand, 2) = 0
    /\ Len(players[1].tokens) = 16

(* C14: a successful sell of exactly 3, exactly 4, or 5 or more cards      *)
(* moves exactly one bonus token from the stack of tier 3, 4 or 5 to the   *)
(* bonus tokens of that tier of the seat that moved, and touches no other  *)
(* tier; a sell of 1 or 2 cards moves none; with the stack of the tier     *)
(* empty the sell succeeds and moves none.                                 *)
C14_SellBonus ==
    [][Sold =>
        LET me == whos_turn
            n == Len(SoldIdx)
            tier == IF n >= 5 THEN 5 ELSE n
        IN  /\ \A t \in Tiers :
                  IF t = tier /\ Len(bonus_tokens[t]) > 0
                  THEN /\ bonus_tokens'[t] = Front(bonus_tokens[t])
                       /\ players'[me].bonus_tokens[t] =
                              Append(Me.bonus_tokens[t], Last(bonus_tokens[t]))
                  ELSE /\ bonus_tokens'[t] = bonus_tokens[t]
                       /\ players'[me].bonus_tokens[t] = Me.bonus_tokens[t]
            /\ players'[1 - me].bonus_tokens = players[1 - me].bonus_tokens]_vars

\* GameD: seven sales of three have emptied the tier-3 stack, and seat 1 has
\* just made the eighth; it holds the three bonus tokens it held before
C14_Witness ==
    /\ game = 4 /\ step = 34 /\ free = 0
    /\ Called /\ Top = "s" /\ ret = "True"
    /\ Len(Val(Val(req).sell_idx)) = 3
    /\ Len(bonus_tokens[3]) = 0
    /\ Len(players[0].bonus_tokens[3]) = 4
    /\ Len(players[1].bonus_tokens[3]) = 3

-----------------------------------------------------------------------------
(* Trades *)

\* the next state is the end of a trade; its lists, an absent list being empty
IsTrade == Calls /\ Asked.top = "t"
TradeIn == IF Falsy(Asked.trade_in) THEN <<>> ELSE Val(Asked.trade_in)
TradeOut == IF Falsy(Asked.trade_out) THEN <<>> ELSE Val(Asked.trade_out)

\* every index of idxs refers to a card of s
AllRefer(s, idxs) == \A i \in 1..Len(idxs) : InRange(s, idxs[i])

(* C15: a trade returns failure when its two lists differ in length, when  *)
(* fewer than 2 cards are traded, or when a list has a duplicate; a trade  *)
(* that refers to a camel of the market, or to a card type both in the     *)
(* market and in the hand, does not succeed, and returns failure when      *)
(* every index refers to a card; in each case nothing changes.             *)
C15_TradeValidation ==
    [][IsTrade =>
        /\ (\/ Len(TradeIn) # Len(TradeOut)
            \/ Len(TradeIn) < 2
            \/ HasDuplicates(TradeIn)
            \/ HasDuplicates(TradeOut))
           => (ret' = "False" /\ UNCHANGED engine)
        /\ (\/ Camel \in Referenced(market, TradeIn)
            \/ Referenced(market, TradeIn) \cap Referenced(Me.hand, TradeOut) # {})
           => /\ ret' # "True"
              /\ UNCHANGED engine
              /\ (AllRefer(market, TradeIn) /\ AllRefer(Me.hand, TradeOut))
                    => ret' = "False"]_vars

\* a trade of two goods of the market for two hand cards, one of them of a
\* type asked for, has just been refused
C15_Witness ==
    /\ Called /\ Top = "t" /\ ret = "False"
    /\ ~Falsy(Val(req).trade_in) /\ ~Falsy(Val(req).trade_out)
    /\ Len(Val(Val(req).trade_in)) = 2
    /\ Proper(market, Val(Val(req).trade_in))
    /\ Proper(Me.hand, Val(Val(req).trade_out))
    /\ Camel \notin Referenced(market, Val(Val(req).trade_in))
    /\ Referenced(market, Val(Val(req).trade_in))
          \cap Referenced(Me.hand, Val(Val(req).trade_out)) # {}

\* the trade asked for meets every precondition but the hand limit
ValidTrade ==
    /\ Len(TradeIn) = Len(TradeOut) /\ Len(TradeIn) >= 2
    /\ Proper(market, TradeIn) /\ Proper(Me.hand, TradeOut)
    /\ Camel \notin Referenced(market, TradeIn)
    /\ Referenced(market, TradeIn) \cap Referenced(Me.hand, TradeOut) = {}
\* how many camels the trade gives from the hand
CamelsGiven == Cardinality({i \in 1..Len(TradeOut) : At(Me.hand, TradeOut[i]) = Camel})

(* C16: a trade that gives camels from the hand and meets the other        *)
(* preconditions succeeds when the hand of the seat to move holds at most  *)
(* 7 cards that are not camels after the swap, and fails and changes       *)
(* nothing when it would hold more.  The code has no such limit.           *)
C16_TradeHandLimit ==
    [][(IsTrade /\ ValidTrade /\ CamelsGiven >= 1)
       => IF num_cards(Me) + CamelsGiven <= 7
          THEN ret' = "True"
          ELSE ret' = "False" /\ UNCHANGED engine]_vars

\* the next state is the end of a trade that succeeded
Traded == IsTrade /\ ret' = "True"
(* C17: after a successful trade, for each pair of a market index m and a  *)
(* hand index h, the card that was at market[m] is in the hand of the seat *)
(* that moved and the card that was at hand[h] is at market[m]; market and *)
(* hand keep their lengths, the deck is as it was, and market and hand     *)
(* together hold the same cards as before.                                 *)
C17_TradeEffect ==
    [][Traded =>
        LET me == whos_turn IN
        /\ \A i \in 1..Len(TradeIn) :
              /\ Count(players'[me].hand, At(market, TradeIn[i])) >= 1
              /\ At(market', TradeIn[i]) = At(Me.hand, TradeOut[i])
        /\ Len(market') = Len(market)
        /\ Len(players'[me].hand) = Len(Me.hand)
        /\ deck' = deck
        /\ \A t \in 0..6 :
              Count(market', t) + Count(players'[me].hand, t) =
                  Count(market, t) + Count(Me.hand, t)]_vars

\* the engine as _do_trade_cards leaves it, before do_action sorts the hand
\* and passes the turn
AfterSwap == _do_trade_cards(G, TradeIn, TradeOut).g
\* the inverse trade: the same pairs of indices, asked of the same seat again
Inverse == _do_trade_cards(AfterSwap, TradeIn, TradeOut)
\* the inverse trade succeeds and puts market and hand back
Restores ==
    /\ Inverse.ret = "True"
    /\ Inverse.g.market = market
    /\ Hand(Inverse.g) = Me.hand

(* C18: after a successful trade, the exact inverse trade (the cards just  *)
(* taken given back for the cards just given) puts the market and the hand *)
(* of the seat that traded back as they were.  A trade that gave a camel   *)
(* cannot be undone: a trade may not take a camel.                         *)
C18_TradeInverse == [][Traded => Restores]_vars

(* C18, amended: after a successful trade by distinct indices within the   *)
(* market and the hand that gave no camel, _do_trade_cards asked again of  *)
(* the same seat with the same index lists, before do_action sorts the     *)
(* hand and passes the turn, succeeds and puts market and hand back as     *)
(* they were; the inverse of a trade that gave a camel is refused.         *)
C18_TradeInverseOfGoods ==
    [][(Traded /\ Proper(market, TradeIn) /\ Proper(Me.hand, TradeOut))
       => IF Camel \in Referenced(Me.hand, TradeOut)
          THEN Inverse.ret = "False"
          ELSE Restores]_vars

\* a trade of two goods of the hand for two goods of the market has just succeeded
C18_Witness ==
    /\ Called /\ Top = "t" /\ ret = "True"
    /\ Len(Val(Val(req).trade_in)) = 2
    /\ Proper(market, Val(Val(req).trade_in))
    /\ Proper(players[1 - whos_turn].hand, Val(Val(req).trade_out))
    /\ Camel \notin Referenced(market, Val(Val(req).trade_in))
    /\ Count(players[1 - whos_turn].hand, Camel) = 0

-----------------------------------------------------------------------------
(* Taking camels *)

IsTakeCamels == Calls /\ Asked.top = "c"
\* the cards of s that are not camels, in their order
RECURSIVE GoodsOf(_)
GoodsOf(s) ==
    IF Len(s) = 0 THEN <<>>
    ELSE (IF Head(s) = Camel THEN <<>> ELSE <<Head(s)>>) \o GoodsOf(Tail(s))
\* the last n cards of the deck, in the order they are drawn
Drawn(d, n) == [j \in 1..n |-> d[Len(d) - j + 1]]

(* C19: a successful take-camels with k >= 1 camels in the market and d    *)
(* cards in the deck gives the seat that moved exactly k camels, takes all *)
(* k out of the market and draws exactly min(k, d) cards from the deck     *)
(* into the market, which has 5 cards again when d >= k; a camel drawn     *)
(* here stays in the market.                                               *)
C19_TakeCamelsEffect ==
    [][(IsTakeCamels /\ ret' = "True") =>
        LET me == whos_turn
            k == Count(market, Camel)
            d == Len(deck)
            n == IF k < d THEN k ELSE d
        IN  /\ k >= 1
            /\ \A t \in 0..6 :
                  Count(players'[me].hand, t) =
                      Count(Me.hand, t) + (IF t = Camel THEN k ELSE 0)
            /\ market' = GoodsOf(market) \o Drawn(deck, n)
            /\ deck' = SubSeq(deck, 1, d - n)
            /\ Count(market', Camel) = Count(Drawn(deck, n), Camel)
            /\ (d >= k) => Len(market') = 5
            /\ players'[me].tokens = Me.tokens
            /\ players'[me].bonus_tokens = Me.bonus_tokens
            /\ players'[1 - me] = players[1 - me]
            /\ UNCHANGED <<tokens, bonus_tokens>>]_vars

\* camels have just been taken, and a camel drawn in their place lies in the market
C19_Witness ==
    /\ Called /\ Top = "c" /\ ret = "True"
    /\ Count(market, Camel) >= 1
    /\ Len(market) = 5

(* C20: take-camels fails and changes nothing exactly when the market      *)
(* holds no camel; with at least one camel in the market it succeeds.      *)
C20_TakeCamelsFailsWithoutCamel ==
    [][IsTakeCamels =>
        IF Count(market, Camel) = 0
        THEN ret' = "False" /\ UNCHANGED engine
        ELSE ret' = "True"]_vars

\* take-camels has just been refused: the market holds no camel
C20_Witness ==
    /\ Called /\ Top = "c" /\ ret = "False"
    /\ Count(market, Camel) = 0
    /\ Len(market) = 5

-----------------------------------------------------------------------------
(* C21: in every state between two calls, and in every state a call leaves, *)
(* the market holds at most 5 cards.                                        *)
C21_MarketCapacity == Len(market) <= 5

\* a seat has just taken three camels or more, and the market is full again
C21_Witness ==
    /\ Called /\ Top = "c" /\ ret = "True"
    /\ Count(players[(whos_turn + 1) % 2].hand, Camel) >= 3
    /\ Len(market) = 5
    /\ Len(deck) <= 37

(* C22: a market of fewer than 5 cards means that the deck is empty and    *)
(* is_done() is true; and once a successful call has left the deck empty,  *)
(* is_done() is true.                                                      *)
C22_ShortMarketMeansOver ==
    /\ Len(market) < 5 => (Len(deck) = 0 /\ is_done(G))
    /\ (Called /\ ret = "True" /\ Len(deck) = 0) => is_done(G)

\* a successful call found the deck empty and left a place of the market open
C22_Witness ==
    /\ Called /\ ret = "True"
    /\ Len(market) < 5
    /\ Len(deck) = 0
    /\ is_done(G)

-----------------------------------------------------------------------------
(* The queries *)

\* the state is the end of a call of the query m
Answered(m) == answer # None /\ Val(answer).method = m
Value == Val(Val(answer).value)

\* the next state is the end of a call of the query m; what it returned
Queries(m) == answer' # None /\ Val(answer').method = m
Given == Val(Val(answer').value)

Camels(seat) == Count(players[seat].hand, Camel)
TokenValue(seat) == Sum(players[seat].tokens)
BonusValue(seat) ==
    Sum(players[seat].bonus_tokens[3]) + Sum(players[seat].bonus_tokens[4])
        + Sum(players[seat].bonus_tokens[5])
CamelBonus(seat) == IF Camels(seat) > Camels(1 - seat) THEN 5 ELSE 0

(* C23: once is_done() is true, get_scores returns for each seat the sum of *)
(* its value tokens plus the sum of the values of its bonus tokens, plus 5  *)
(* for the seat that holds strictly more camels than the other; with equal  *)
(* numbers of camels neither seat gets the 5.                               *)
C23_FinalScore ==
    [][(Queries("get_scores") /\ is_done(G)) =>
            /\ ret' = "returned"
            /\ \A seat \in Seats :
                   Given.scores[seat + 1] =
                       TokenValue(seat) + BonusValue(seat) + CamelBonus(seat)]_vars

\* GameA is over with four empty stacks: seat 0 holds bonus tokens and more
\* camels than seat 1, and get_scores has returned
C23_Witness ==
    /\ Answered("get_scores") /\ ret = "returned"
    /\ is_done(G)
    /\ Camels(0) > Camels(1)
    /\ BonusValue(0) > 0
    /\ Value.scores[1] = TokenValue(0) + BonusValue(0) + 5

BonusCount(seat) ==
    Len(players[seat].bonus_tokens[3]) + Len(players[seat].bonus_tokens[4])
        + Len(players[seat].bonus_tokens[5])
TokenCount(seat) == Len(players[seat].tokens)

\* seat a comes before seat b: by final score, then by the number of bonus
\* tokens, then by the number of value tokens
Beats(scores, a, b) ==
    \/ scores[a + 1] > scores[b + 1]
    \/ /\ scores[a + 1] = scores[b + 1]
       /\ \/ BonusCount(a) > BonusCount(b)
          \/ /\ BonusCount(a) = BonusCount(b)
             /\ TokenCount(a) > TokenCount(b)

(* C24: the winner that get_scores returns with the final scores is the    *)
(* seat with the higher final score; on equal scores the seat with more    *)
(* bonus tokens by count; on equal counts the seat with more value tokens  *)
(* by count; there is no winner (None) if these are equal too.  The winner *)
(* never has the strictly lower final score.                               *)
C24_Winner ==
    [][(Queries("get_scores") /\ is_done(G)) =>
            /\ ret' = "returned"
            /\ \A seat \in Seats :
                   Given.winner = Some(seat) <=> Beats(Given.scores, seat, 1 - seat)
            /\ Given.winner = None <=>
                   (~Beats(Given.scores, 0, 1) /\ ~Beats(Given.scores, 1, 0))
            /\ \A seat \in Seats :
                   Given.winner = Some(seat) =>
                       Given.scores[seat + 1] >= Given.scores[2 - seat]]_vars

\* GameF after call 56: equal final scores, and get_scores has named seat 0,
\* which holds more bonus tokens and fewer value tokens than seat 1
C24_Witness ==
    /\ Answered("get_scores") /\ ret = "returned"
    /\ is_done(G)
    /\ Value.scores[1] = Value.scores[2]
    /\ BonusCount(0) > BonusCount(1)
    /\ TokenCount(0) < TokenCount(1)
    /\ Value.winner = Some(0)

(* C25: while is_done() is false, get_scores returns for each seat exactly *)
(* the sum of its value tokens, with neither the values of its bonus       *)
(* tokens nor the camel bonus, and changes nothing of the game.            *)
C25_ScoresBeforeTheEnd ==
    [][(Queries("get_scores") /\ ~is_done(G)) =>
            /\ ret' = "returned"
            /\ Given = [scores |-> <<TokenValue(0), TokenValue(1)>>]
            /\ UNCHANGED engine]_vars

\* the game goes on, a seat holds bonus tokens, the seats hold different
\* numbers of camels, and get_scores has returned the sums of the value tokens
C25_Witness ==
    /\ Answered("get_scores") /\ ret = "returned"
    /\ ~is_done(G)
    /\ BonusValue(0) > 0 /\ BonusValue(1) > 0
    /\ Camels(0) # Camels(1)
    /\ Value.scores = <<TokenValue(0), TokenValue(1)>>

Opponent == (whos_turn + 1) % 2

\* the hand with the camels of hand and, in the place of each of its other
\* cards, a card of type t
Disguise(hand, t) == [i \in 1..Len(hand) |-> IF hand[i] = Camel THEN Camel ELSE t]

\* the present game with another hand for the opponent of the seat to move
WithOpponentHand(h) == [G EXCEPT !.players[Opponent].hand = h]

(* C26: get_state returns a view, and the same view for every game that    *)
(* differs from the present one only in the types of the opponent's cards  *)
(* that are not camels; of the opponent's hand the view gives the two      *)
(* counts enemy_num_goods and enemy_num_camels.  The code returns no view: *)
(* every call raises TypeError.                                            *)
C26_SnapshotHidesGoods ==
    [][Queries("get_state") =>
            /\ ret' = "returned"
            /\ \A t \in Goods :
                   get_state(WithOpponentHand(Disguise(players[Opponent].hand, t))).value
                       = Val(answer').value
            /\ Given.enemy_num_goods = num_cards(players[Opponent])
            /\ Given.enemy_num_camels = Camels(Opponent)]_vars

(* C27: get_state succeeds in every reachable state and returns, for the   *)
(* seat to move: the deck count, the names of the market's cards, for each *)
(* of the six goods its remaining stack of tokens, the number of bonus     *)
(* tokens left per tier, the seat's hand, tokens and bonus counts, and the *)
(* opponent's counts; it changes nothing of the game.  The code raises     *)
(* TypeError while it builds the entry "tokens_left".                      *)
C27_GetStateSucceeds ==
    [][Queries("get_state") =>
            /\ ret' = "returned"
            /\ Given.num_deck = Len(deck)
            /\ Given.market = Names(market)
            /\ \A t \in Goods : Given.tokens_left[_types[t + 1]] = tokens[t]
            /\ \A n \in Tiers : Given.bonus_num_left[n] = Len(bonus_tokens[n])
            /\ Given.my_hand = Names(Me.hand)
            /\ Given.my_tokens = Me.tokens
            /\ \A n \in Tiers : Given.my_bonus_num_tokens[n] = Len(Me.bonus_tokens[n])
            /\ Given.enemy_num_goods = num_cards(players[Opponent])
            /\ Given.enemy_num_camels = Camels(Opponent)
            /\ Given.enemy_tokens = players[Opponent].tokens
            /\ \A n \in Tiers :
                   Given.enemy_bonus_num_tokens[n] = Len(players[Opponent].bonus_tokens[n])
            /\ UNCHANGED engine]_vars

(* C28: get_last_action returns the record of the last action, which is    *)
(* None as long as no call of do_action has succeeded, becomes the type    *)
(* and the parameters of each call that succeeds, and is left as it was by *)
(* a call that fails.                                                      *)
C28_LastAction ==
    [][/\ (step = 0 /\ free = 0) => last_action = None
       /\ Queries("get_last_action") =>
              (ret' = "returned" /\ Given = last_action /\ UNCHANGED engine)
       /\ (Calls /\ ret' = "True") => last_action' = Some(Asked)
       /\ (Calls /\ ret' # "True") => last_action' = last_action]_vars

\* get_last_action has returned the trade that was the last call to succeed
C28_Witness ==
    /\ Answered("get_last_action") /\ ret = "returned"
    /\ Value # None
    /\ Val(Value).top = "t"
    /\ Val(Value).trade_in # None /\ Val(Value).trade_out # None
    /\ Value = last_action

(* C29: every call of do_action, whether it succeeds, fails or raises,     *)
(* leaves the hand, the value tokens and the bonus tokens of the seat that *)
(* is not to move as they were.                                            *)
C29_OnlyActingSeatChanges ==
    [][Calls => players'[Opponent] = players[Opponent]]_vars

\* a sale of three cards or more has just paid the seat that moved, and the
\* other seat, now to move, holds cards, value tokens and bonus tokens
C29_Witness ==
    /\ Called /\ Top = "s" /\ ret = "True"
    /\ Len(Val(Val(req).sell_idx)) >= 3
    /\ BonusCount(Opponent) > 0
    /\ Len(Me.hand) > 0 /\ TokenCount(whos_turn) > 0 /\ BonusCount(whos_turn) > 0

\* all the cards of type t: in the deck, in the market and in the two hands
CardsOfType(t) ==
    Count(deck, t) + Count(market, t) + Count(players[0].hand, t)
        + Count(players[1].hand, t)

(* C30: right after construction, whatever the shuffle, the market has 5   *)
(* cards of which at least 3 are camels, each hand has 5 cards, the deck   *)
(* has 40 cards, and deck, market and hands together hold 10 leather, 8    *)
(* spice, 8 cloth, 6 silver, 6 gold, 6 diamond and 11 camels.              *)
C30_Setup ==
    (step = 0 /\ free = 0) =>
        /\ Len(market) = 5
        /\ Count(market, Camel) >= 3
        /\ Len(players[0].hand) = 5 /\ Len(players[1].hand) = 5
        /\ Len(deck) = 40
        /\ <<CardsOfType(0), CardsOfType(1), CardsOfType(2), CardsOfType(3),
              CardsOfType(4), CardsOfType(5), CardsOfType(6)>>
               = <<10, 8, 8, 6, 6, 6, 11>>

\* a fresh game of a shuffle that dealt two more camels to the market and a
\* hand of five camels to seat 0
C30_Witness ==
    /\ step = 0 /\ free = 0 /\ ret = NoCall
    /\ last_action = None
    /\ Count(market, Camel) = 5
    /\ Count(players[0].hand, Camel) = 5
    /\ Len(deck) = 40

-----------------------------------------------------------------------------
\* an index list that is absent or empty
NoList(o) == o = None \/ o = Some(<<>>)

\* a request of an unknown type, or one that lacks what its type needs
Malformed(r) ==
    \/ r.top \notin {"c", "s", "g", "t"}
    \/ r.top = "s" /\ NoList(r.sell_idx)
    \/ r.top = "g" /\ r.grab_idx = None
    \/ r.top = "t" /\ (NoList(r.trade_in) \/ NoList(r.trade_out))

(* C31: do_action returns failure and changes nothing for a request of an  *)
(* unknown type, a sell with an empty or absent index list, a grab with no *)
(* index, and a trade with an index list empty or absent; a grab of index  *)
(* 0 is a grab of the market's first card, not a grab with no index: it    *)
(* succeeds and takes that card whenever the market holds a card and the   *)
(* hand is not at the limit of 7.                                          *)
C31_MalformedRequests ==
    [][/\ (Calls /\ Malformed(Asked)) => (ret' = "False" /\ UNCHANGED engine)
       /\ (Calls /\ Asked.top = "g" /\ Asked.grab_idx = Some(0)
               /\ Len(market) > 0 /\ num_cards(Me) # 7) =>
              /\ ret' = "True"
              /\ IsWithCard(players'[whos_turn].hand, Me.hand, market[1])]_vars

\* a trade that names two market cards and gives an empty list of hand cards
\* has just failed
C31_Witness ==
    /\ Called /\ Top = "t" /\ ret = "False"
    /\ Val(req).trade_in = Some(<<0, 1>>)
    /\ Val(req).trade_out = Some(<<>>)

(* C32: in every state where is_done() is false, a call of                 *)
(* RandomPlayer.take_action returns after one successful action of the     *)
(* engine: it raises nothing, it comes to an end, and the turn has passed  *)
(* to the other seat.  In the code the call ends at once with the          *)
(* TypeError of get_state.                                                 *)
C32_RandomPlayerMoves ==
    [][(Queries("take_action") /\ ~is_done(G)) =>
            (ret' = "returned" /\ whos_turn' # whos_turn)]_vars

-----------------------------------------------------------------------------
IsSorted(s) == \A i \in 1..(Len(s) - 1) : s[i] <= s[i + 1]

(* C33: in every state between two calls, and in every state a call       *)
(* leaves, each seat's hand is in ascending order of card type, the camels *)
(* last.                                                                   *)
C33_HandsStaySorted == \A p \in Seats : IsSorted(players[p].hand)

\* a grab has just put a card behind the camels of the hand, and the hand of
\* the seat that moved is in order again: goods of two types, then camels
C33_Witness ==
    /\ Called /\ Top = "g" /\ ret = "True"
    /\ Camels(Opponent) >= 1
    /\ Cardinality(Range(players[Opponent].hand)) >= 3
    /\ Last(players[Opponent].hand) = Camel
    /\ IsSorted(players[Opponent].hand)

\* the stack after is what is left of the stack before when cards or tokens
\* have been taken from its top
IsRestOf(after, stack) ==
    /\ Len(after) <= Len(stack)
    /\ after = SubSeq(stack, 1, Len(after))

(* C34: no call of do_action makes the deck, a stack of goods tokens or a  *)
(* stack of bonus tokens longer: what is left is the stack without the     *)
(* cards or tokens taken from its top, and each card drawn and each token  *)
(* awarded shortens its stack by exactly one: apart from the cards sold,   *)
(* market and hands gain as many cards as the deck loses, and the seat that *)
(* moves gains as many value tokens as the goods stacks lose and, tier by  *)
(* tier, as many bonus tokens as the tier's stack loses.                   *)
C34_ResourcesOnlyShrink ==
    [][Calls =>
        LET me == whos_turn
        IN  /\ IsRestOf(deck', deck)
            /\ \A t \in Goods : IsRestOf(tokens'[t], tokens[t])
            /\ \A n \in Tiers : IsRestOf(bonus_tokens'[n], bonus_tokens[n])
            /\ Asked.top # "s" => TotalCards' = TotalCards
            /\ Asked.top = "s" => deck' = deck
            /\ Len(players'[me].tokens) - Len(Me.tokens)
                   = Sum([k \in 1..6 |-> Len(tokens[k - 1]) - Len(tokens'[k - 1])])
            /\ \A n \in Tiers :
                   Len(players'[me].bonus_tokens[n]) - Len(Me.bonus_tokens[n])
                       = Len(bonus_tokens[n]) - Len(bonus_tokens'[n])]_vars

\* a sale of four cards has just been paid from the stack of its goods and
\* from the tier-4 bonus stack, after cards have been drawn from the deck
C34_Witness ==
    /\ Called /\ Top = "s" /\ ret = "True"
    /\ Len(Val(Val(req).sell_idx)) = 4
    /\ Len(bonus_tokens[4]) < 6
    /\ Len(players[Opponent].bonus_tokens[4]) >= 1
    /\ Len(deck) < 40

(* C35: in every state reachable from setup by calls of do_action, each    *)
(* seat holds at most 7 cards that are not camels.  A trade that gives     *)
(* camels for goods is not held to the limit and takes a hand to 8.        *)
C35_HandLimit == \A p \in Seats : num_cards(players[p]) <= 7

(* C36: in every reachable state the camels in the deck, in the market and *)
(* in the two hands together number 11.                                    *)
C36_CamelConservation == CardsOfType(Camel) = 11

\* a trade has just given camels to the market; each seat holds camels, and
\* camels are left in the deck
C36_Witness ==
    /\ Called /\ Top = "t" /\ ret = "True"
    /\ Count(market, Camel) >= 1
    /\ Camels(0) >= 1 /\ Camels(1) >= 1
    /\ Count(deck, Camel) >= 1
    /\ CardsOfType(Camel) = 11

\* the value tokens of value v: left in the six stacks and held by the seats
ValueTokens(v) ==
    Sum([k \in 1..6 |-> Count(tokens[k - 1], v)])
        + Count(players[0].tokens, v) + Count(players[1].tokens, v)

\* the bonus tokens of tier n and value v: left in the stack and held
BonusTokens(n, v) ==
    Count(bonus_tokens[n], v) + Count(players[0].bonus_tokens[n], v)
        + Count(players[1].bonus_tokens[n], v)

(* C37: in every reachable state the value tokens left in the six stacks   *)
(* and held by the two seats number 38, with as many of each value as at   *)
(* setup, and the bonus tokens of tiers 3, 4 and 5, left and held, number  *)
(* 7, 6 and 5, with as many of each value as at setup.                     *)
C37_TokenConservation ==
    /\ Sum([k \in 1..6 |-> Len(tokens[k - 1])])
           + Len(players[0].tokens) + Len(players[1].tokens) = 38
    /\ \A v \in 1..10 :
           ValueTokens(v) = Sum([k \in 1..6 |-> Count(InitTokens[k - 1], v)])
    /\ <<Len(bonus_tokens[3]) + Len(players[0].bonus_tokens[3]) + Len(players[1].bonus_tokens[3]),
          Len(bonus_tokens[4]) + Len(players[0].bonus_tokens[4]) + Len(players[1].bonus_tokens[4]),
          Len(bonus_tokens[5]) + Len(players[0].bonus_tokens[5]) + Len(players[1].bonus_tokens[5])>>
           = <<7, 6, 5>>
    /\ \A n \in Tiers : \A v \in 1..10 :
           BonusTokens(n, v) = Count(InitBonusTokens[n], v)

\* a sale has just ended with a stack of goods tokens empty, and both seats
\* hold value tokens and bonus tokens
C37_Witness ==
    /\ Called /\ Top = "s" /\ ret = "True"
    /\ EmptyStacks >= 1
    /\ TokenCount(0) >= 1 /\ TokenCount(1) >= 1
    /\ BonusCount(0) >= 1 /\ BonusCount(1) >= 1

(***************************************************************************)
(* C38: a seat to move is never stuck                                      *)
(***************************************************************************)

\* the take-camels, grab, sell and trade requests a seat can make of g
Moves(g) ==
    TakeRequests \cup GrabRequests(g) \cup SellRequests(g) \cup TradeRequests(g)

\* the requests of Moves(g) with the given top action that do_action accepts
Open(g, top) == {r \in Moves(g) : r.top = top /\ do_action(g, r).ret = "True"}

\* C38: in every reachable state where is_done() is false, at least one
\* take-camels, grab, sell or trade request succeeds for the seat to move.
C38_NoStuckSeat ==
    ~is_done(G) =>
        \/ \E r \in TakeRequests : do_action(G, r).ret = "True"
        \/ \E r \in GrabRequests(G) : do_action(G, r).ret = "True"
        \/ \E r \in SellRequests(G) : do_action(G, r).ret = "True"
        \/ \E r \in TradeRequests(G) : do_action(G, r).ret = "True"

\* a running game where the seat to move holds nothing and the market shows
\* no camel: taking camels, selling and trading all fail, a grab succeeds
C38_Witness ==
    /\ ret = NoCall
    /\ ~is_done(G)
    /\ Me.hand = <<>>
    /\ Open(G, "c") = {} /\ Open(G, "s") = {} /\ Open(G, "t") = {}
    /\ Open(G, "g") # {}

(***************************************************************************)
(* C39: the game ends unless the players trade forever                     *)
(***************************************************************************)

\* the cards the two seats hold, camels included
HandCards == Len(players[0].hand) + Len(players[1].hand)

\* C39: the pair (cards in the deck, cards in the two hands) is a variant of
\* the game.  Every successful take-camels or grab in a non-terminated state
\* shortens the deck by at least one card; every successful sale leaves the
\* deck and takes at least one card out of the hands; a successful trade
\* leaves both numbers as they are; no successful action lengthens the deck;
\* and with no card left in the deck is_done() is true.  The pair falls in
\* the lexicographic order at each successful turn that is not a trade and
\* cannot fall forever, so a run in which each turn is a successful action
\* and only finitely many are trades has only finitely many turns before
\* is_done() is true.
C39_GameEnds ==
    [][(Calls /\ ret' = "True") =>
        /\ Len(deck') <= Len(deck)
        /\ (Asked.top \in {"c", "g"} /\ ~is_done(G)) => Len(deck') < Len(deck)
        /\ Asked.top = "s" =>
               (Len(deck') = Len(deck) /\ HandCards' < HandCards)
        /\ Asked.top = "t" =>
               (Len(deck') = Len(deck) /\ HandCards' = HandCards)
        /\ Len(deck') = 0 => is_done(G')]_vars

\* a game that a successful take-camels or grab ended by drawing the last
\* card of the deck
C39_Witness ==
    /\ Called /\ Top \in {"c", "g"} /\ ret = "True"
    /\ deck = <<>>
    /\ is_done(G)

=============================================================================
